---------------------------- MODULE Spec2Model ----------------------------
(***************************************************************************)
(* A model of the Eagle schematic import plugin                            *)
(* (eeschema/sch_eagle_plugin.cpp): the bus-entry synthesizer, the net and *)
(* label loader, the library resolver, the instance loader and the         *)
(* ownership of the root sheet in Load; of the block commands of the       *)
(* library editor (eeschema/block_libedit.cpp); and of the pad move of     *)
(* the board editor (pcbnew/move-drag_pads.cpp).                           *)
(*                                                                         *)
(* Coordinates are in mils, as in the plugin after EUNIT_TO_MIL.  A point  *)
(* is a pair <<x, y>>.  Every draw item of a sheet screen is a record with *)
(* the same fields; the list of a screen (DLIST<SCH_ITEM>) is a sequence   *)
(* of such records and an item pointer is the item's id (NULL is 0).       *)
(***************************************************************************)
EXTENDS Integers, Sequences, FiniteSets, TLC

VARIABLES
    items,      \* draw items of the current sheet screen, in list order
    items0,     \* the draw items when addBusEntries was entered (history)
    nextId,     \* id given to the next item created
    be_pc,      \* position in addBusEntries: idle, outer, inner, done, crashed
    be_bus,     \* the outer loop's item pointer (bus)
    be_line,    \* the inner loop's item pointer (line)
    be_uaf,     \* a deleted wire was used again during the scan (history)
    doc,        \* the foreign document: parts, libraries, sheets
    ld_pc,      \* position in loadSchematic: parts, libs, countNets, sheets,
                \* done, crashed
    ld_sheet,   \* index of the sheet being loaded
    childSheets,    \* the child sheets appended to the root screen, in order
    sheet_xy,   \* the locals x and y of loadSchematic's sheet loop
    sh_pc,      \* position in loadSheet: none, busses, nets, busentries,
                \* instances, plain
    sh_bus,     \* bus elements of the sheet loaded so far
    sh_net,     \* net elements of the sheet loaded so far
    sh_inst,    \* instance elements of the sheet loaded so far
    sh_elem,    \* the element the last loadSegments / loadInstance was given
    sh_trans,   \* the translation the last finished sheet was moved by
    m_netCounts,    \* net name -> count
    m_partlist,     \* part name -> EPART (or a null pointer)
    m_partlib,      \* symbol name -> LIB_PART of the output library
    m_eagleLibs,    \* library name -> EAGLE_LIBRARY
    lib_pc,     \* position in loadLibrary: start, devices, gates
    lib_idx,    \* index of the library being loaded
    dev_idx,    \* index of the device being loaded
    gateindex,  \* the local gateindex of loadLibrary
    kpart,      \* the part being built
    ispower,    \* the local ispower of loadLibrary
    asserted,   \* a wxASSERT has failed (history)
    m_rootSheet,    \* the root sheet pointer of the plugin, or NULL
    heap,       \* the root sheets ever allocated: alive or destroyed, and
                \* who owns them
    calls,      \* the number of calls of Load so far
    ld_last,    \* what the last call of Load was given and did (history)
    etext,      \* the text element (or attribute) a text loader is given
    edatext,    \* the EDA_TEXT the loader made of it
    screen,     \* the library editor's screen: m_BlockLocate (m_State,
                \* m_Command, m_Flags, the number of picked items), the
                \* current item and the modify flag
    DrawPanel,  \* the two cursor callbacks of the draw panel
    m_component,    \* the component being edited, or a null pointer
    undoCount,  \* the length of the undo list of the library editor
    blk_last,   \* what the last block handler was given and returned
                \* (history)
    m_Pads,     \* the pads of the footprint: position, local position
                \* (pos0), flags
    tracks,     \* the track segments of the board: start, end, the
                \* IN_EDIT state and the edit flags
    g_DragSegmentList,  \* the segments being dragged with the pad
    s_CurrentSelectedPad,   \* the static pointer to the pad being moved
    Pad_OldPos, \* the static position the pad had when the move began
    mouseCapture,   \* the two mouse capture callbacks of the canvas
    pick_list,  \* the static list of picked items
    pcbUndo,    \* the undo list of the board editor, and its modify flag
    pad_start,  \* what the last StartMovePad of a pad found (history)
    pad_last    \* what the last pad function was given (history)

varsBus == <<items, items0, nextId, be_pc, be_bus, be_line, be_uaf>>

varsSheet == <<ld_sheet, childSheets, sheet_xy, sh_pc, sh_bus, sh_net, sh_inst, sh_elem, sh_trans,
               m_netCounts, m_partlist>>

varsLoad == <<m_rootSheet, heap, calls, ld_last>>

varsLib == <<m_partlib, m_eagleLibs, lib_pc, lib_idx, dev_idx, gateindex,
             kpart, ispower>>

varsText == <<etext, edatext>>

varsBlock == <<screen, DrawPanel, m_component, undoCount, blk_last>>

\* what the importer's own steps leave alone
varsPad == <<m_Pads, tracks, g_DragSegmentList, s_CurrentSelectedPad, Pad_OldPos,
             mouseCapture, pick_list, pcbUndo, pad_start, pad_last>>

varsEdit == <<varsText, varsBlock, varsPad>>

NULL == 0

(***************************************************************************)
(* Bounds of the model.                                                    *)
(***************************************************************************)
GridMax == 3        \* coordinates of drawn inputs are 50 * (0..GridMax) mils

Coords == {50 * k : k \in 0..GridMax}

GridPoints == Coords \X Coords

(***************************************************************************)
(* Points.                                                                 *)
(***************************************************************************)
Pt(x, y) == <<x, y>>

PAdd(p, q) == <<p[1] + q[1], p[2] + q[2]>>

PSub(p, q) == <<p[1] - q[1], p[2] - q[2]>>

\* C++ integer division truncates toward zero.
CDiv(a, b) == IF a >= 0 THEN a \div b ELSE -((-a) \div b)

\* C++ remainder has the sign of the dividend.
CMod(a, b) == a - b * CDiv(a, b)

MidPoint(s, e) == <<CDiv(s[1] + e[1], 2), CDiv(s[2] + e[2], 2)>>

Min(a, b) == IF a <= b THEN a ELSE b

Max(a, b) == IF a >= b THEN a ELSE b

\* TestSegmentHit( aRefPoint, aStart, aEnd, 0 ): the point lies exactly on
\* the closed segment.
TestSegmentHit(p, a, b) ==
    /\ Min(a[1], b[1]) <= p[1] /\ p[1] <= Max(a[1], b[1])
    /\ Min(a[2], b[2]) <= p[2] /\ p[2] <= Max(a[2], b[2])
    /\ (b[1] - a[1]) * (p[2] - a[2]) = (b[2] - a[2]) * (p[1] - a[1])

(***************************************************************************)
(* Draw items.                                                             *)
(***************************************************************************)
\* An item not yet given a kind.  elem, seg and synth record which call of
\* loadSegments and which segment made a label and whether the label was
\* synthesized; forWire and forEnd record the wire end point a bus entry or
\* marker was made for; part and gate record the instance a component was
\* made from, value the value of its part or the empty string as loadInstance
\* read it, and tstamp is its time stamp.
BaseItem ==
    [id |-> 0, kind |-> "", layer |-> "", s |-> <<0, 0>>, e |-> <<0, 0>>,
     glyph |-> "", text |-> <<>>, unit |-> 0, orient |-> "",
     forWire |-> 0, forEnd |-> "", elem |-> 0, seg |-> 0, synth |-> FALSE,
     part |-> <<>>, gate |-> <<>>, value |-> <<>>, tstamp |-> 0]

\* new SCH_LINE with layer, start and end point
Line(id, layer, s, e) ==
    [BaseItem EXCEPT !.id = id, !.kind = "line", !.layer = layer,
                     !.s = s, !.e = e]

\* new SCH_LABEL / SCH_GLOBALLABEL at a position
Label(id, kind, pos, text) ==
    [BaseItem EXCEPT !.id = id, !.kind = kind, !.s = pos, !.e = pos,
                     !.text = text]

\* new SCH_JUNCTION at a position
Junction(id, pos) ==
    [BaseItem EXCEPT !.id = id, !.kind = "junction", !.s = pos, !.e = pos]

\* new SCH_BUS_WIRE_ENTRY( pos, shape )
BusEntry(id, pos, glyph, w, wend) ==
    [BaseItem EXCEPT !.id = id, !.kind = "entry", !.s = pos, !.e = pos,
                     !.glyph = glyph, !.forWire = w, !.forEnd = wend]

\* new SCH_MARKER( pos, "Bus Entry neeeded" )
Marker(id, pos, w, wend) ==
    [BaseItem EXCEPT !.id = id, !.kind = "marker", !.s = pos, !.e = pos,
                     !.forWire = w, !.forEnd = wend]

Ids(l) == {l[i].id : i \in 1..Len(l)}

IndexOf(l, id) == CHOOSE i \in 1..Len(l) : l[i].id = id

ItemOf(l, id) == l[IndexOf(l, id)]

\* GetDrawItems(): the first item of the list, or NULL
First(l) == IF Len(l) = 0 THEN NULL ELSE l[1].id

\* item->Next()
NextOf(l, id) ==
    IF IndexOf(l, id) = Len(l) THEN NULL ELSE l[IndexOf(l, id) + 1].id

\* DLIST::DeleteItem / Remove
DeleteItem(l, id) == SelectSeq(l, LAMBDA it : it.id # id)

\* apply f to the item with the given id
Update(l, id, f(_)) ==
    [i \in 1..Len(l) |-> IF l[i].id = id THEN f(l[i]) ELSE l[i]]

SetStartPoint(l, id, p) == Update(l, id, LAMBDA it : [it EXCEPT !.s = p])

SetEndPoint(l, id, p) == Update(l, id, LAMBDA it : [it EXCEPT !.e = p])

IsLabel(it) == it.kind \in {"label", "glabel"}

\* moveLabels( aWire, aNewEndPoint ), given the wire's end points
moveLabels(l, ws, we, newp) ==
    [i \in 1..Len(l) |->
        IF IsLabel(l[i]) /\ TestSegmentHit(l[i].s, ws, we)
        THEN [l[i] EXCEPT !.s = newp, !.e = newp]
        ELSE l[i]]

(***************************************************************************)
(* Names are sequences of characters.  A std::map is a function; reading   *)
(* it with operator[] inserts a default value for a key it does not hold.  *)
(***************************************************************************)
EmptyMap == [k \in {} |-> 0]

MapGet(m, k, default) == IF k \in DOMAIN m THEN m[k] ELSE default

MapTouch(m, k, default) ==
    IF k \in DOMAIN m THEN m
    ELSE [x \in DOMAIN m \cup {k} |-> IF x = k THEN default ELSE m[x]]

MapPut(m, k, v) == [x \in DOMAIN m \cup {k} |-> IF x = k THEN v ELSE m[x]]

RECURSIVE ReplaceChar(_, _, _)
\* wxString::Replace of a one-character pattern
ReplaceChar(str, c, by) ==
    IF str = <<>> THEN <<>>
    ELSE (IF Head(str) = c THEN by ELSE <<Head(str)>>)
         \o ReplaceChar(Tail(str), c, by)

escapeName(name) == ReplaceChar(ReplaceChar(name, "~", <<"~", "~">>), "!", <<"~">>)

(***************************************************************************)
(* Nets, segments and labels.  A segment is the sequence of its children,  *)
(* each a record [kind, layer, s, e]: a wire with its layer and end points *)
(* (in mils, y already negated), a label or a junction at s, or a pinref.  *)
(***************************************************************************)
Child(kind, layer, s, e) == [kind |-> kind, layer |-> layer, s |-> s, e |-> e]

\* loadWire
loadWire(c) == Line(0, c.layer, c.s, c.e)

\* loadJunction
loadJunction(c) == Junction(0, c.s)

\* ( a ^ 2 ) in C++: exclusive or with 2
Xor2(n) == IF (n % 4) \in {2, 3} THEN n - 2 ELSE n + 2

Abs(n) == IF n < 0 THEN -n ELSE n

\* the radicand of d in findNearestLinePoint
Distance(p, t) == Abs(Xor2(p[1] - t[1]) + Xor2(p[2] - t[2]))

\* the start, middle and end of every line, in scan order
TestPoints(wires) ==
    [i \in 1..(3 * Len(wires)) |->
        LET w == wires[((i - 1) \div 3) + 1]
        IN  IF i % 3 = 1 THEN w.s
            ELSE IF i % 3 = 2 THEN MidPoint(w.s, w.e) ELSE w.e]

RECURSIVE ISqrtFrom(_, _, _)
\* the whole part of the square root of r, one bit after another
ISqrtFrom(r, cur, bit) ==
    IF bit = 0 THEN cur
    ELSE LET c == cur + bit
         IN  ISqrtFrom(r, IF c <= 46340 /\ c * c <= r THEN c ELSE cur, bit \div 2)

\* (q * 2^t + b)^2 <= r * 4^t, where rest = r - q * q, worked out within
\* 32 bits
FractionFits(q, rest, t, b) ==
    LET m == 2 ^ t
        u == (2 * q * b) \div m
        v == (2 * q * b) % m
        w == v * m + b * b
    IN  u + ((w + m * m - 1) \div (m * m)) <= rest

RECURSIVE FractionFrom(_, _, _, _, _)
\* the largest b below 2^t with FractionFits, one bit after another
FractionFrom(q, rest, t, cur, bit) ==
    IF bit = 0 THEN cur
    ELSE FractionFrom(q, rest, t,
                      IF FractionFits(q, rest, t, cur + bit) THEN cur + bit ELSE cur,
                      bit \div 2)

\* float d = sqrt( abs( ... ) ): the square root rounded to the 24 bits of
\* a float, as a whole number that orders as the floats do.  Below 2^22 two
\* radicands never round to the same float and the radicand itself is the
\* number; from 2^22 on it is the rounded root times 2^12.
FloatSqrt(r) ==
    IF r < 2 ^ 22 THEN r
    ELSE LET q == ISqrtFrom(r, 0, 2 ^ 15)
             e == IF q < 2 ^ 12 THEN 11
                  ELSE IF q < 2 ^ 13 THEN 12
                  ELSE IF q < 2 ^ 14 THEN 13
                  ELSE IF q < 2 ^ 15 THEN 14 ELSE 15
             s == 23 - e
             t == s + 1
             g == q * (2 ^ t) + FractionFrom(q, r - q * q, t, 0, 2 ^ s)
             k == (g + 1) \div 2
         IN  k * (2 ^ (12 - s))

RECURSIVE NearestFrom(_, _, _, _, _)
\* the loop of findNearestLinePoint: d < mindistance compares floats
NearestFrom(p, pts, i, best, mind) ==
    IF i > Len(pts) THEN best
    ELSE LET d == FloatSqrt(Distance(p, pts[i]))
         IN  IF mind < 0 \/ d < mind
             THEN NearestFrom(p, pts, i + 1, pts[i], d)
             ELSE NearestFrom(p, pts, i + 1, best, mind)

\* findNearestLinePoint: mindistance starts at the largest float (-1 here)
findNearestLinePoint(p, wires) == NearestFrom(p, TestPoints(wires), 1, <<0, 0>>, -1)

\* loadLabel: the label kind from the net's count, the position re-homed
\* when the label lies on no wire of the segment
loadLabel(c, netName, wires, counts) ==
    LET onWire == \E i \in 1..Len(wires) :
                     TestSegmentHit(c.s, wires[i].s, wires[i].e)
        pos    == IF ~onWire /\ wires # <<>>
                  THEN findNearestLinePoint(c.s, wires) ELSE c.s
        kind   == IF MapGet(counts, netName, 0) > 1 THEN "glabel" ELSE "label"
    IN  Label(0, kind, pos, escapeName(netName))

\* SynthLabel placing the label at the start of the first wire
SynthLabelAtStart(netName, wires, counts, segmentCount) ==
    LET kind == IF MapGet(counts, netName, 0) > 1 THEN "glabel" ELSE "label"
    IN  IF MapGet(counts, netName, 0) > 1 \/ segmentCount > 1
        THEN <<[Label(0, kind, wires[1].s, escapeName(netName)) EXCEPT !.synth = TRUE]>>
        ELSE <<>>

\* the label loadSegments adds to a segment that has wires and no label
SynthLabel(netName, wires, counts, segmentCount) ==
    LET pos == MidPoint(wires[1].s, wires[1].e)
    IN  IF MapGet(counts, netName, 0) > 1
        THEN <<[Label(0, "glabel", pos, escapeName(netName)) EXCEPT !.synth = TRUE]>>
        ELSE IF segmentCount > 1
        THEN <<[Label(0, "label", pos, escapeName(netName)) EXCEPT !.synth = TRUE]>>
        ELSE <<>>

\* the items one segment adds to the screen, in the order they are appended
SegmentItems(seg, netName, counts, segmentCount) ==
    LET wireNodes == SelectSeq(seg, LAMBDA c : c.kind = "wire")
        wires     == [i \in 1..Len(wireNodes) |-> loadWire(wireNodes[i])]
        drawn     == SelectSeq(seg, LAMBDA c : c.kind \in {"junction", "label"})
        first     == [i \in 1..Len(drawn) |->
                         IF drawn[i].kind = "junction"
                         THEN loadJunction(drawn[i])
                         ELSE loadLabel(drawn[i], netName, wires, counts)]
        labelled  == \E i \in 1..Len(seg) : seg[i].kind = "label"
    IN  first
        \o (IF ~labelled /\ wires # <<>>
            THEN SynthLabel(netName, wires, counts, segmentCount) ELSE <<>>)
        \o wires

\* whether loading the segment reads m_netCounts[netName]
SegmentReadsCount(seg) ==
    \/ \E i \in 1..Len(seg) : seg[i].kind = "label"
    \/ \E i \in 1..Len(seg) : seg[i].kind = "wire"

\* give the new items their ids and the ordinals of their element and segment
Numbered(protos, nid, elemNo, segNo) ==
    [i \in 1..Len(protos) |->
        [protos[i] EXCEPT !.id = nid + i - 1, !.elem = elemNo, !.seg = segNo]]

RECURSIVE LoadSegs(_, _, _, _, _, _, _)
LoadSegs(segs, k, l, nid, counts, netName, elemNo) ==
    IF k > Len(segs) THEN [l |-> l, nid |-> nid, counts |-> counts]
    ELSE LET new == SegmentItems(segs[k], netName, counts, Len(segs))
         IN  LoadSegs(segs, k + 1,
                      l \o Numbered(new, nid, elemNo, k),
                      nid + Len(new),
                      IF SegmentReadsCount(segs[k])
                      THEN MapTouch(counts, netName, 0) ELSE counts,
                      netName, elemNo)

\* loadSegments( aSegmentsNode, netName, aNetClass )
loadSegments(segs, l, nid, counts, netName, elemNo) ==
    LoadSegs(segs, 1, l, nid, counts, netName, elemNo)

\* countNets: one is added to a name's count for every net element that
\* carries the name, on whatever sheet
RECURSIVE CountNames(_, _, _)
CountNames(names, i, counts) ==
    IF i > Len(names) THEN counts
    ELSE CountNames(names, i + 1,
                    MapPut(counts, names[i], MapGet(counts, names[i], 0) + 1))

RECURSIVE CountSheets(_, _, _)
CountSheets(sheets, i, counts) ==
    IF i > Len(sheets) THEN counts
    ELSE CountSheets(sheets, i + 1, CountNames(sheets[i].nets, 1, counts))

countNets(sheets, counts) == CountSheets(sheets, 1, counts)

(***************************************************************************)
(* The library resolver.  A symbol is the sequence of its children; a pin  *)
(* child carries name, rot, visible, direction, length and function, each  *)
(* optional attribute either <<>> (absent) or <<value>>.  A part           *)
(* (LIB_PART) holds its unit count and its draw items in the order they    *)
(* were added.  src records the symbol child a draw item was made from.    *)
(***************************************************************************)
BaseDraw ==
    [kind |-> "", unit |-> 0, name |-> <<>>, number |-> <<>>,
     numHidden |-> FALSE, nameHidden |-> FALSE, orient |-> "",
     type |-> "", length |-> -1, shape |-> "", rot |-> 0, src |-> 0,
     angle |-> 0, hjustify |-> "", vjustify |-> ""]

\* new LIB_PART( symbolName ): one unit, no draw items, both fields shown
NewPart(name) ==
    [name |-> name, unitCount |-> 1, items |-> <<>>, power |-> FALSE,
     refVisible |-> TRUE, valVisible |-> TRUE, refText |-> <<>>]

NoPart == [NewPart(<<>>) EXCEPT !.unitCount = 0]

\* LIB_PART::SetUnitCount while the part holds no item of a later unit
SetUnitCount(part, n) == [part EXCEPT !.unitCount = n]

\* LIB_PART::AddDrawItem
AddDrawItem(part, it) == [part EXCEPT !.items = Append(@, it)]

Opt(o, default) == IF o = <<>> THEN default ELSE o[1]

SupportedRotations == {0, 90, 180, 270}

\* the switch of loadPin: an unhandled rotation falls through to case 0
PinOrientation(roti) ==
    IF roti = 90 THEN "U"
    ELSE IF roti = 180 THEN "L"
    ELSE IF roti = 270 THEN "D"
    ELSE "R"

\* the lengths loadPin sets, -1 when it leaves the default
PinLength(len) ==
    IF len = <<"short">> THEN 100
    ELSE IF len = <<"middle">> THEN 200
    ELSE IF len = <<"long">> THEN 300
    ELSE IF len = <<"point">> THEN 0
    ELSE -1

PinShape(fn) ==
    IF fn = <<"dot">> THEN "inverted"
    ELSE IF fn = <<"clk">> THEN "clock"
    ELSE IF fn = <<"dotclk">> THEN "inverted_clock"
    ELSE "line"

\* loadPin
loadPin(ePin, aGateNumber) ==
    [BaseDraw EXCEPT
        !.kind = "pin",
        !.name = ePin.name,
        !.unit = aGateNumber,
        !.rot = Opt(ePin.rot, 0),
        !.orient = PinOrientation(Opt(ePin.rot, 0)),
        !.length = PinLength(ePin.length),
        !.nameHidden = ePin.visible \in {<<"off">>, <<"pad">>},
        !.numHidden = ePin.visible \in {<<"off">>, <<"pin">>},
        !.shape = PinShape(ePin.function),
        !.type = "unspecified"]

\* the letters, in upper and in lower case
UpperLetters ==
    <<"A", "B", "C", "D", "E", "F", "G", "H", "I", "J", "K", "L", "M",
      "N", "O", "P", "Q", "R", "S", "T", "U", "V", "W", "X", "Y", "Z">>

LowerLetters ==
    <<"a", "b", "c", "d", "e", "f", "g", "h", "i", "j", "k", "l", "m",
      "n", "o", "p", "q", "r", "s", "t", "u", "v", "w", "x", "y", "z">>

LowerChar(c) ==
    IF \E i \in 1..Len(UpperLetters) : UpperLetters[i] = c
    THEN LowerLetters[CHOOSE i \in 1..Len(UpperLetters) : UpperLetters[i] = c]
    ELSE c

UpperChar(c) ==
    IF \E i \in 1..Len(LowerLetters) : LowerLetters[i] = c
    THEN UpperLetters[CHOOSE i \in 1..Len(LowerLetters) : LowerLetters[i] = c]
    ELSE c

\* wxString::Lower: every letter of the string in lower case
Lower(str) == [i \in 1..Len(str) |-> LowerChar(str[i])]

\* wxString::Upper: every letter of the string in upper case
Upper(str) == [i \in 1..Len(str) |-> UpperChar(str[i])]

\* the direction tokens loadSymbol knows, the same in upper case, and
\* some of them in mixed case
DirectionWords ==
    <<<<"s", "u", "p">>,
      <<"p", "a", "s">>,
      <<"o", "u", "t">>,
      <<"i", "n">>,
      <<"n", "c">>,
      <<"i", "o">>,
      <<"o", "c">>,
      <<"h", "i", "z">>>>

UpperWords == [i \in 1..Len(DirectionWords) |-> Upper(DirectionWords[i])]

MixedWords ==
    <<<<"S", "u", "p">>,
      <<"P", "a", "s">>,
      <<"o", "U", "t">>,
      <<"I", "n">>,
      <<"n", "C">>,
      <<"I", "o">>,
      <<"O", "c">>,
      <<"h", "i", "Z">>,
      <<"s", "U", "P">>,
      <<"s", "u", "P">>,
      <<"p", "A", "S">>,
      <<"H", "i", "z">>>>

\* the electrical type loadSymbol sets from a direction that is present
PinType(dir) ==
    LET d == Lower(dir)
    IN  IF d = <<"s", "u", "p">> THEN "power_in"
        ELSE IF d = <<"p", "a", "s">> THEN "passive"
        ELSE IF d = <<"o", "u", "t">> THEN "output"
        ELSE IF d = <<"i", "n">> THEN "input"
        ELSE IF d = <<"n", "c">> THEN "nc"
        ELSE IF d = <<"i", "o">> THEN "bidi"
        ELSE IF d = <<"o", "c">> THEN "openemitter"
        ELSE IF d = <<"h", "i", "z">> THEN "tristate"
        ELSE "unspecified"

RECURSIVE SplitFrom(_, _, _, _)
\* the loop of wxSplit over the characters of str, with ' ' as the separator
\* and the escape character '\': a separator that follows the escape
\* character takes its place at the end of the token and ends nothing, any
\* other separator ends the token, empty or not; after the loop the last
\* token is added if it is not empty or the last character was a separator
SplitFrom(str, i, curr, ret) ==
    IF i > Len(str)
    THEN IF curr # <<>> \/ (Len(str) > 0 /\ str[Len(str)] = " ")
         THEN Append(ret, curr) ELSE ret
    ELSE IF str[i] = " "
         THEN IF i > 1 /\ str[i - 1] = "\\"
              THEN SplitFrom(str, i + 1,
                             [curr EXCEPT ![Len(curr)] = " "], ret)
              ELSE SplitFrom(str, i + 1, <<>>, Append(ret, curr))
         ELSE SplitFrom(str, i + 1, Append(curr, str[i]), ret)

\* wxSplit( str, ' ' ) of wxWidgets; the call leaves the escape character
\* to its default, the backslash
wxSplit(str) == SplitFrom(str, 1, <<>>, <<>>)

Digit(n) == <<"0", "1", "2", "3", "4", "5", "6", "7", "8", "9">>[n + 1]

RECURSIVE Format(_)
\* wxString::Format( "%i", n ) for n >= 0
Format(n) == IF n < 10 THEN <<Digit(n)>> ELSE Append(Format(n \div 10), Digit(n % 10))

\* the first connect of the device for the gate and the pin, 0 if none
MatchingConnect(connects, aGateName, pinName) ==
    LET hits == {i \in 1..Len(connects) :
                    connects[i].gate = aGateName /\ connects[i].pin = pinName}
    IN  IF hits = {} THEN 0 ELSE CHOOSE i \in hits : \A j \in hits : i <= j

\* the pin draw items one pin child adds: one per token of the pad list of
\* the matching connect (none when the list has no token), or one numbered
\* by the pin count when the device has no connects
PinItems(ePin, connects, aGateNumber, aGateName, pincount, src) ==
    LET pin0 == [loadPin(ePin, aGateNumber) EXCEPT !.src = src]
        pin  == IF ePin.direction = <<>> THEN pin0
                ELSE [pin0 EXCEPT !.type = PinType(ePin.direction[1])]
        c    == MatchingConnect(connects, aGateName, pin.name)
    IN  IF Len(connects) # 0
        THEN IF c = 0 THEN <<>>
             ELSE LET pads   == wxSplit(connects[c].pad)
                      shared == [pin EXCEPT !.name = escapeName(pin.name),
                                            !.numHidden = @ \/ Len(pads) > 1]
                  IN  [i \in 1..Len(pads) |-> [shared EXCEPT !.number = pads[i]]]
        ELSE <<[pin EXCEPT !.number = Format(pincount)]>>

(***************************************************************************)
(* Text alignment.  An Eagle alignment is one of the nine ETEXT codes, by  *)
(* name; a rotation attribute is <<>> (absent) or <<[degrees, mirror,      *)
(* spin]>>.  An EDA_TEXT is known by its angle (in tenths of a degree) and *)
(* its two justifications.                                                 *)
(***************************************************************************)
Alignments ==
    {"CENTER", "CENTER_LEFT", "TOP_CENTER", "TOP_LEFT", "TOP_RIGHT",
     "CENTER_RIGHT", "BOTTOM_CENTER", "BOTTOM_LEFT", "BOTTOM_RIGHT"}

\* -align: the ETEXT codes of opposite places are each other's negative
Negated(align) ==
    CASE align = "CENTER"        -> "CENTER"
      [] align = "CENTER_LEFT"   -> "CENTER_RIGHT"
      [] align = "CENTER_RIGHT"  -> "CENTER_LEFT"
      [] align = "TOP_CENTER"    -> "BOTTOM_CENTER"
      [] align = "BOTTOM_CENTER" -> "TOP_CENTER"
      [] align = "TOP_LEFT"      -> "BOTTOM_RIGHT"
      [] align = "BOTTOM_RIGHT"  -> "TOP_LEFT"
      [] align = "TOP_RIGHT"     -> "BOTTOM_LEFT"
      [] align = "BOTTOM_LEFT"   -> "TOP_RIGHT"

\* the mirror step of eagleToKicadAlignment
Mirrored(align, aAbsDegress) ==
    IF aAbsDegress = 90 \/ aAbsDegress = 270
    THEN CASE align = "BOTTOM_RIGHT" -> "TOP_RIGHT"
           [] align = "BOTTOM_LEFT"  -> "TOP_LEFT"
           [] align = "TOP_LEFT"     -> "BOTTOM_LEFT"
           [] align = "TOP_RIGHT"    -> "BOTTOM_RIGHT"
           [] OTHER                  -> align
    ELSE IF aAbsDegress = 0 \/ aAbsDegress = 180
    THEN CASE align = "BOTTOM_RIGHT" -> "BOTTOM_LEFT"
           [] align = "BOTTOM_LEFT"  -> "BOTTOM_RIGHT"
           [] align = "TOP_LEFT"     -> "TOP_RIGHT"
           [] align = "TOP_RIGHT"    -> "TOP_LEFT"
           [] align = "CENTER_LEFT"  -> "CENTER_RIGHT"
           [] align = "CENTER_RIGHT" -> "CENTER_LEFT"
           [] OTHER                  -> align
    ELSE align

\* the switch of eagleToKicadAlignment: <<horizontal, vertical>>
Justification(align) ==
    CASE align = "CENTER"        -> <<"CENTER", "CENTER">>
      [] align = "CENTER_LEFT"   -> <<"LEFT", "CENTER">>
      [] align = "CENTER_RIGHT"  -> <<"RIGHT", "CENTER">>
      [] align = "TOP_CENTER"    -> <<"CENTER", "TOP">>
      [] align = "TOP_LEFT"      -> <<"LEFT", "TOP">>
      [] align = "TOP_RIGHT"     -> <<"RIGHT", "TOP">>
      [] align = "BOTTOM_CENTER" -> <<"CENTER", "BOTTOM">>
      [] align = "BOTTOM_LEFT"   -> <<"LEFT", "BOTTOM">>
      [] align = "BOTTOM_RIGHT"  -> <<"RIGHT", "BOTTOM">>
      [] OTHER                   -> <<"RIGHT", "BOTTOM">>

eagleToKicadAlignment(aText, aEagleAlignment, aRelDegress, aMirror, aSpin, aAbsDegress) ==
    LET turned == IF aRelDegress = 180 \/ aRelDegress = 270
                  THEN Negated(aEagleAlignment) ELSE aEagleAlignment
        align  == IF aMirror THEN Mirrored(turned, aAbsDegress) ELSE turned
        just   == Justification(align)
    IN  [aText EXCEPT
            !.angle = IF aRelDegress = 90 \/ aRelDegress = 270 THEN 900 ELSE @,
            !.hjustify = just[1], !.vjustify = just[2]]

\* what a text element without rot is taken to have
NoRot == [degrees |-> 0, mirror |-> FALSE, spin |-> FALSE]

\* loadSymbolCircle without its SetUnit call
loadSymbolCircleNoUnit(aGateNumber) == [BaseDraw EXCEPT !.kind = "circle"]

loadSymbolCircle(aGateNumber) ==
    [BaseDraw EXCEPT !.kind = "circle", !.unit = aGateNumber]

loadSymbolRectangle(aGateNumber) ==
    [BaseDraw EXCEPT !.kind = "rectangle", !.unit = aGateNumber]

loadSymbolPolyLine(aGateNumber) ==
    [BaseDraw EXCEPT !.kind = "polyline", !.unit = aGateNumber]

\* loadSymbolWire: an arc when the wire has a curve, a polyline otherwise
loadSymbolWire(c, aGateNumber) ==
    [BaseDraw EXCEPT !.kind = IF c.curve THEN "arc" ELSE "polyline",
                     !.unit = aGateNumber]

\* loadSymbolText: the alignment is worked out with 0 for the absolute
\* rotation
loadSymbolText(c, aGateNumber) ==
    LET libtext == [BaseDraw EXCEPT !.kind = "text", !.unit = aGateNumber,
                                    !.name = c.name]
        align   == Opt(c.align, "BOTTOM_LEFT")
        rot     == Opt(c.rot, NoRot)
    IN  eagleToKicadAlignment(libtext, align, rot.degrees, rot.mirror,
                              rot.spin, 0)

\* the texts loadSymbol takes for a field: the text in upper case is
\* ">NAME" or ">VALUE"
NameText == <<">", "N", "A", "M", "E">>

ValueText == <<">", "V", "A", "L", "U", "E">>

IsFieldText(c) == c.kind = "text" /\ Upper(c.name) \in {NameText, ValueText}

PinsBefore(sym, i) == Cardinality({j \in 1..i : sym[j].kind = "pin"})

\* the draw items the i-th child of a symbol adds to the part
ChildItems(sym, i, connects, aGateNumber, aGateName) ==
    LET c == sym[i]
    IN  IF c.kind = "circle" THEN <<[loadSymbolCircle(aGateNumber) EXCEPT !.src = i]>>
        ELSE IF c.kind = "pin"
        THEN PinItems(c, connects, aGateNumber, aGateName, PinsBefore(sym, i), i)
        ELSE IF c.kind = "polygon"
        THEN <<[loadSymbolPolyLine(aGateNumber) EXCEPT !.src = i]>>
        ELSE IF c.kind = "rectangle"
        THEN <<[loadSymbolRectangle(aGateNumber) EXCEPT !.src = i]>>
        ELSE IF c.kind = "text"
        THEN IF IsFieldText(c) THEN <<>>
             ELSE <<[loadSymbolText(c, aGateNumber) EXCEPT !.src = i]>>
        ELSE IF c.kind = "wire"
        THEN <<[loadSymbolWire(c, aGateNumber) EXCEPT !.src = i]>>
        ELSE <<>>

RECURSIVE SymbolItems(_, _, _, _, _)
SymbolItems(sym, i, connects, aGateNumber, aGateName) ==
    IF i > Len(sym) THEN <<>>
    ELSE ChildItems(sym, i, connects, aGateNumber, aGateName)
         \o SymbolItems(sym, i + 1, connects, aGateNumber, aGateName)

\* loadSymbol: the part with the symbol's items added and its fields
\* shown or hidden, and the value returned (a single pin that is "sup")
loadSymbol(sym, part, connects, aGateNumber, aGateName) ==
    LET pins       == {i \in 1..Len(sym) : sym[i].kind = "pin"}
        sup        == \E i \in pins : /\ sym[i].direction # <<>>
                                      /\ Lower(sym[i].direction[1]) = <<"s", "u", "p">>
        fieldTexts == {i \in 1..Len(sym) : IsFieldText(sym[i])}
        foundName  == \E i \in fieldTexts : Upper(sym[i].name) = NameText
        foundValue == \E i \in fieldTexts : Upper(sym[i].name) = ValueText
        withItems  == [part EXCEPT !.items =
                          @ \o SymbolItems(sym, 1, connects, aGateNumber, aGateName)]
    IN  [part    |-> [withItems EXCEPT
                         !.refVisible = foundName,
                         !.valVisible = @ /\ foundValue],
         ispower |-> (Cardinality(pins) = 1 /\ sup),
         badRot  |-> \E i \in pins : Opt(sym[i].rot, 0) \notin SupportedRotations]

(***************************************************************************)
(* loadLibrary, one step per loop pass.  A library of the document is      *)
(* [name, dsname, prefix, symbols, gates, devices]: one deviceset with its *)
(* gates [name, symbol] and devices [name, package, connects], and the     *)
(* symbols by name.  Every gate names a symbol of the library.             *)
(***************************************************************************)
\* wxString::Replace( "*", "" ) on deviceset name + device name
SymbolName(dsname, devname) == ReplaceChar(dsname \o devname, "*", <<>>)

NewEagleLibrary(name) ==
    [name |-> name, GateUnit |-> EmptyMap, package |-> EmptyMap]

CurLib == doc.libs[lib_idx]

CurDev == CurLib.devices[dev_idx]

\* loadSchematic: the library loop is at a library; its EAGLE_LIBRARY is
\* created in m_eagleLibs
LibraryBegin ==
    /\ ld_pc = "libs" /\ lib_pc = "start"
    /\ lib_idx <= Len(doc.libs)
    /\ m_eagleLibs' = MapPut(m_eagleLibs, CurLib.name,
                             [MapGet(m_eagleLibs, CurLib.name,
                                     NewEagleLibrary(CurLib.name))
                                 EXCEPT !.name = CurLib.name])
    /\ lib_pc' = "devices"
    /\ dev_idx' = 1
    /\ UNCHANGED <<varsEdit, varsLoad, varsBus, varsSheet, doc, ld_pc, asserted,
                   m_partlib, lib_idx, gateindex, kpart, ispower>>

\* loadLibrary: a device of the deviceset; the part is created with the
\* unit count of the deviceset's gates
DeviceBegin ==
    /\ ld_pc = "libs" /\ lib_pc = "devices"
    /\ dev_idx <= Len(CurLib.devices)
    /\ LET name == SymbolName(CurLib.dsname, CurDev.name)
           part == SetUnitCount(NewPart(name), Len(CurLib.gates))
           elib == m_eagleLibs[CurLib.name]
       IN  /\ kpart' = IF CurLib.prefix = <<>>
                       THEN [part EXCEPT !.refVisible = FALSE]
                       ELSE [part EXCEPT !.refText = CurLib.prefix]
           /\ m_eagleLibs' =
                 IF CurDev.package = <<>> THEN m_eagleLibs
                 ELSE [m_eagleLibs EXCEPT ![CurLib.name].package =
                          MapPut(elib.package, name, CurDev.package[1])]
    /\ gateindex' = 1
    /\ ispower' = FALSE
    /\ lib_pc' = "gates"
    /\ UNCHANGED <<varsEdit, varsLoad, varsBus, varsSheet, doc, ld_pc, asserted,
                   m_partlib, lib_idx, dev_idx>>

\* the stop or the go-on of a failed wxASSERT, which is a no-op in a build
\* without assertions
AfterAssert(failed) == IF failed THEN {"crashed", "libs"} ELSE {"libs"}

\* loadLibrary: one gate; its unit is recorded and its symbol loaded
LoadGate ==
    /\ ld_pc = "libs" /\ lib_pc = "gates"
    /\ gateindex <= Len(CurLib.gates)
    /\ LET gate == CurLib.gates[gateindex]
           elib == m_eagleLibs[CurLib.name]
           r    == loadSymbol(CurLib.symbols[gate.symbol], kpart,
                              CurDev.connects, gateindex, gate.name)
       IN  /\ m_eagleLibs' = [m_eagleLibs EXCEPT ![CurLib.name].GateUnit =
                 MapPut(elib.GateUnit,
                        CurLib.dsname \o CurDev.name \o gate.name, gateindex)]
           /\ kpart' = r.part
           /\ ispower' = r.ispower
           /\ asserted' = (asserted \/ r.badRot)
           /\ ld_pc' \in AfterAssert(r.badRot)
    /\ gateindex' = gateindex + 1
    /\ UNCHANGED <<varsEdit, varsLoad, varsBus, varsSheet, doc, m_partlib, lib_pc, lib_idx, dev_idx>>

\* loadLibrary: the gates of the device are done; the part is marked as a
\* power symbol and added to the output library
DeviceEnd ==
    /\ ld_pc = "libs" /\ lib_pc = "gates"
    /\ gateindex > Len(CurLib.gates)
    /\ LET counted == SetUnitCount(kpart, Len(CurLib.gates))
           part    == IF Len(CurLib.gates) = 1 /\ ispower
                      THEN [counted EXCEPT !.power = TRUE] ELSE counted
       IN  m_partlib' = MapPut(m_partlib, part.name, part)
    /\ kpart' = NoPart
    /\ dev_idx' = dev_idx + 1
    /\ lib_pc' = "devices"
    /\ UNCHANGED <<varsEdit, varsLoad, varsBus, varsSheet, doc, ld_pc, asserted,
                   m_eagleLibs, lib_idx, gateindex, ispower>>

\* loadLibrary returns: the devices of the library are done
LibraryEnd ==
    /\ ld_pc = "libs" /\ lib_pc = "devices"
    /\ dev_idx > Len(CurLib.devices)
    /\ lib_idx' = lib_idx + 1
    /\ lib_pc' = "start"
    /\ UNCHANGED <<varsEdit, varsLoad, varsBus, varsSheet, doc, ld_pc, asserted,
                   m_partlib, m_eagleLibs, dev_idx, gateindex, kpart, ispower>>

\* LibrariesDone taken while libraries are still to be loaded
LibrariesDoneEarly ==
    /\ ld_pc = "libs" /\ lib_pc = "start"
    /\ ld_pc' = "countNets"
    /\ UNCHANGED <<varsEdit, varsLoad, varsBus, varsSheet, varsLib, doc, asserted>>

\* loadSchematic: the libraries are done
LibrariesDone ==
    /\ ld_pc = "libs" /\ lib_pc = "start"
    /\ lib_idx > Len(doc.libs)
    /\ ld_pc' = "countNets"
    /\ UNCHANGED <<varsEdit, varsLoad, varsBus, varsSheet, varsLib, doc, asserted>>

(***************************************************************************)
(* addBusEntries.  The scan is two nested loops over the live item list;   *)
(* one step of the model is one pass of the inner loop body (one line      *)
(* against the current bus) or one pass of the outer loop head.            *)
(*                                                                         *)
(* The body works on a record st: l the item list, nid the next free id,   *)
(* ls and le the locals linestart and lineend, del whether the line has    *)
(* been deleted in this pass, uaf whether the deleted line was used again,  *)
(* misread the labels moveLabels finds on the memory of a deleted line.    *)
(***************************************************************************)
\* the offset of a bus entry, in mils
EntrySize == 100

AddEntry(st, pos, glyph, w, wend) ==
    [st EXCEPT !.l = Append(@, BusEntry(st.nid, pos, glyph, w, wend)),
               !.nid = @ + 1]

AddMarker(st, pos, w, wend) ==
    [st EXCEPT !.l = Append(@, Marker(st.nid, pos, w, wend)), !.nid = @ + 1]

\* moveLabels( line, p ) followed by SetStartPoint( p ) or SetEndPoint( p )
MoveAndSet(st, w, wend, p) ==
    LET it    == ItemOf(st.l, w)
        moved == moveLabels(st.l, it.s, it.e, p)
    IN  [st EXCEPT !.l = IF wend = "start" THEN SetStartPoint(moved, w, p)
                                           ELSE SetEndPoint(moved, w, p)]

\* One end point test of the horizontal/vertical cases.  br gives the two
\* probes p1, p2, the entry offsets e1, e2 and glyphs g1, g2 of the two
\* probes, and the offset n of the re-homed end point.
HVTest(st, w, bs, be, wend, br) ==
    LET pt == IF wend = "start" THEN st.ls ELSE st.le
    IN  IF ~TestSegmentHit(pt, bs, be) THEN st
        ELSE IF TestSegmentHit(PAdd(pt, br.p1), bs, be)
        THEN MoveAndSet(AddEntry(st, PAdd(pt, br.e1), br.g1, w, wend),
                        w, wend, PAdd(pt, br.n))
        ELSE IF TestSegmentHit(PAdd(pt, br.p2), bs, be)
        THEN MoveAndSet(AddEntry(st, PAdd(pt, br.e2), br.g2, w, wend),
                        w, wend, PAdd(pt, br.n))
        ELSE AddMarker(st, pt, w, wend)

Branch(p1, e1, g1, p2, e2, g2, n) ==
    [p1 |-> p1, e1 |-> e1, g1 |-> g1, p2 |-> p2, e2 |-> e2, g2 |-> g2, n |-> n]

Up == <<0, -EntrySize>>

Down == <<0, EntrySize>>

Left == <<-EntrySize, 0>>

Right == <<EntrySize, 0>>

\* horizontal wire, vertical bus, start of the wire on the bus
HWireStartBranch(st, bs) ==
    IF st.le[1] < bs[1]
    THEN Branch(Up, Left, "/", Down, Left, "\\", Left)
    ELSE Branch(Up, Up, "\\", Down, Down, "/", Right)

\* horizontal wire, vertical bus, end of the wire on the bus
HWireEndBranch(st, bs) ==
    IF st.ls[1] < bs[1]
    THEN Branch(Down, Left, "\\", Up, Left, "/", Left)
    ELSE Branch(Up, Up, "\\", Down, Down, "/", Right)

\* vertical wire, horizontal bus, start of the wire on the bus
VWireStartBranch(st, bs) ==
    IF st.le[2] < bs[2]
    THEN Branch(Left, Left, "/", Right, Down, "\\", Up)
    ELSE Branch(Left, Left, "\\", Right, Right, "/", Down)

\* vertical wire, horizontal bus, end of the wire on the bus
VWireEndBranch(st, bs) ==
    IF st.ls[2] < bs[2]
    THEN Branch(Left, Left, "/", Right, Up, "\\", Up)
    ELSE Branch(Left, Left, "\\", Right, Down, "/", Down)

\* the horizontal-wire/vertical-bus block
HWireVBus(st, w, bs, be) ==
    IF st.ls[2] = st.le[2] /\ bs[1] = be[1]
    THEN LET s1 == HVTest(st, w, bs, be, "start", HWireStartBranch(st, bs))
         IN  HVTest(s1, w, bs, be, "end", HWireEndBranch(s1, bs))
    ELSE st

\* the vertical-wire/horizontal-bus block
VWireHBus(st, w, bs, be) ==
    IF st.ls[1] = st.le[1] /\ bs[2] = be[2]
    THEN LET s1 == HVTest(st, w, bs, be, "start", VWireStartBranch(st, bs))
         IN  HVTest(s1, w, bs, be, "end", VWireEndBranch(s1, bs))
    ELSE st

\* linestart = line->GetStartPoint(); lineend = line->GetEndPoint();
Reread(st, w) ==
    [st EXCEPT !.ls = ItemOf(st.l, w).s, !.le = ItemOf(st.l, w).e]

\* the entry offset e, glyph g and re-homed offset n chosen from the sign
\* of wirevector = linestart - lineend, for the start of the wire
DiagStartBranch(st) ==
    LET wv == PSub(st.ls, st.le)
    IN  IF wv[1] > 0
        THEN IF wv[2] > 0
             THEN [e |-> <<-EntrySize, -EntrySize>>, g |-> "\\",
                   n |-> <<-EntrySize, -EntrySize>>]
             ELSE [e |-> <<-EntrySize, EntrySize>>, g |-> "/",
                   n |-> <<-EntrySize, EntrySize>>]
        ELSE IF wv[2] > 0
             THEN [e |-> <<0, 0>>, g |-> "/", n |-> <<EntrySize, -EntrySize>>]
             ELSE [e |-> <<0, 0>>, g |-> "\\", n |-> <<EntrySize, EntrySize>>]

\* the same for the end of the wire
DiagEndBranch(st) ==
    LET wv == PSub(st.ls, st.le)
    IN  IF wv[1] > 0
        THEN IF wv[2] > 0
             THEN [e |-> <<0, 0>>, g |-> "\\", n |-> <<EntrySize, EntrySize>>]
             ELSE [e |-> <<0, 0>>, g |-> "/", n |-> <<EntrySize, -EntrySize>>]
        ELSE IF wv[2] > 0
             THEN [e |-> <<-EntrySize, EntrySize>>, g |-> "/",
                   n |-> <<-EntrySize, EntrySize>>]
             ELSE [e |-> <<-EntrySize, -EntrySize>>, g |-> "\\",
                   n |-> <<-EntrySize, -EntrySize>>]

\* One end point test of the last block of the loop body.  When the line
\* was deleted by the test of its start, the test of its end still runs on
\* the locals and hands the freed line to moveLabels and to DeleteItem or
\* SetEndPoint.  A build that checks the heap stops there (BusTestLine);
\* in a build that does not, the bus entry made just before was given the
\* memory of the freed line: moveLabels reads a start and an end point out
\* of the entry, which the layout of the two objects decides, and moves the
\* labels it finds on that segment (st.misread, any of the labels) to p;
\* DeleteItem( line ) then takes the new entry off the list.
DiagTest(st, w, bs, be, wend, br) ==
    LET pt    == IF wend = "start" THEN st.ls ELSE st.le
        other == IF wend = "start" THEN st.le ELSE st.ls
        p     == PAdd(pt, br.n)
        s1    == AddEntry(st, PAdd(pt, br.e), br.g, w, wend)
    IN  IF ~TestSegmentHit(pt, bs, be) THEN st
        ELSE IF st.del
        THEN LET read == [i \in 1..Len(s1.l) |->
                             IF IsLabel(s1.l[i]) /\ s1.l[i].id \in st.misread
                             THEN [s1.l[i] EXCEPT !.s = p, !.e = p]
                             ELSE s1.l[i]]
             IN  [s1 EXCEPT !.l = IF p = other THEN DeleteItem(read, st.nid)
                                               ELSE read,
                            !.uaf = TRUE]
        ELSE LET it    == ItemOf(s1.l, w)
                 moved == moveLabels(s1.l, it.s, it.e, p)
             IN  IF p = other
                 THEN [s1 EXCEPT !.l = DeleteItem(moved, w), !.del = TRUE]
                 ELSE [s1 EXCEPT !.l = IF wend = "start"
                                       THEN SetStartPoint(moved, w, p)
                                       ELSE SetEndPoint(moved, w, p)]

\* the last block of the loop body: both end points, whatever the direction
DiagWire(st, w, bs, be) ==
    LET s0 == Reread(st, w)
        s1 == DiagTest(s0, w, bs, be, "start", DiagStartBranch(s0))
    IN  DiagTest(s1, w, bs, be, "end", DiagEndBranch(s1))

\* the body of the inner loop for the line w and the bus b
LineBody(l, nid, w, b, misread) ==
    LET wi == ItemOf(l, w)
        bi == ItemOf(l, b)
        st == [l |-> l, nid |-> nid, ls |-> wi.s, le |-> wi.e, del |-> FALSE,
               uaf |-> FALSE, misread |-> misread]
    IN  IF wi.kind = "line" /\ wi.layer = "wire"
        THEN DiagWire(VWireHBus(HWireVBus(st, w, bi.s, bi.e), w, bi.s, bi.e),
                      w, bi.s, bi.e)
        ELSE st

IsBus(it) == it.kind = "line" /\ it.layer = "bus"

(***************************************************************************)
(* loadSchematic and loadSheet, one step per loop pass.  The document is   *)
(* [parts, libs, sheets]; a sheet is [nets, nbus, ninst]: the names of its *)
(* net elements in document order and the numbers of its bus and instance  *)
(* elements.  The sheets of the model have no description and no plain     *)
(* element; the children of an element are read when it is loaded.         *)
(***************************************************************************)
EPart(library, deviceset, device, value) ==
    [null |-> FALSE, library |-> library, deviceset |-> deviceset,
     device |-> device, value |-> value]

\* the unique_ptr<EPART> operator[] inserts for a name it does not hold
NullEPart ==
    [null |-> TRUE, library |-> <<>>, deviceset |-> <<>>, device |-> <<>>,
     value |-> <<>>]

RECURSIVE PartList(_, _, _)
\* the part loop of loadSchematic: a later part replaces one of the same name
PartList(parts, i, m) ==
    IF i > Len(parts) THEN m
    ELSE PartList(parts, i + 1,
                  MapPut(m, parts[i].name,
                         EPart(parts[i].library, parts[i].deviceset,
                               parts[i].device, parts[i].value)))

\* loadSchematic: the part loop
LoadParts ==
    /\ ld_pc = "parts"
    /\ m_partlist' = PartList(doc.parts, 1, m_partlist)
    /\ ld_pc' = "libs"
    /\ UNCHANGED <<varsEdit, varsLoad, varsBus, varsLib, doc, asserted, ld_sheet, childSheets, sheet_xy, sh_pc, sh_bus,
                   sh_net, sh_inst, sh_elem, sh_trans, m_netCounts>>

\* loadSchematic: countNets, then the sheet loop begins
CountNets ==
    /\ ld_pc = "countNets"
    /\ m_netCounts' = countNets(doc.sheets, m_netCounts)
    /\ ld_pc' = IF Len(doc.sheets) = 0 THEN "done" ELSE "sheets"
    /\ ld_sheet' = 1
    /\ sheet_xy' = IF Len(doc.sheets) > 1 THEN <<1, 1>> ELSE sheet_xy
    /\ UNCHANGED <<varsEdit, varsLoad, varsBus, varsLib, doc, asserted, childSheets, sh_pc, sh_bus, sh_net,
                   sh_inst, sh_elem, sh_trans, m_partlist>>

CurSheet == doc.sheets[ld_sheet]

\* new SCH_SHEET( wxPoint( x * 1000, y * 1000 ) ) for the i-th sheet
NewChildSheet(xy, i) == [pos |-> <<xy[1] * 1000, xy[2] * 1000>>, index |-> i]

\* NextCell without the wrap to the first column
NextCellNoWrap(xy) == <<xy[1] + 2, xy[2]>>

\* x += 2, and back to the first column two rows down when x is over 10
NextCell(xy) == IF xy[1] + 2 > 10 THEN <<1, xy[2] + 2>> ELSE <<xy[1] + 2, xy[2]>>

\* loadSchematic: the sheet loop is at a sheet, whose screen is a new one
\* when the document has several sheets and the root's otherwise.  The ids
\* of items tell apart the items of one screen.
SheetBegin ==
    /\ ld_pc = "sheets" /\ sh_pc = "none"
    /\ items' = IF Len(doc.sheets) > 1 THEN <<>> ELSE items
    /\ items0' = <<>>
    /\ be_pc' = "idle"
    /\ be_bus' = NULL
    /\ be_line' = NULL
    /\ sh_pc' = "segments"
    /\ sh_bus' = 0
    /\ sh_net' = 0
    /\ sh_inst' = 0
    /\ nextId' = IF Len(doc.sheets) > 1 THEN 1 ELSE nextId
    /\ sh_elem' = [kind |-> "none"]
    /\ sh_trans' = <<0, 0>>
    /\ childSheets' = IF Len(doc.sheets) > 1
                      THEN Append(childSheets, NewChildSheet(sheet_xy, ld_sheet))
                      ELSE childSheets
    /\ UNCHANGED <<varsEdit, varsLoad, varsLib, doc, asserted, ld_pc, ld_sheet, sheet_xy, be_uaf,
                   m_netCounts, m_partlist>>

\* the name every bus element of the model carries
BusName == <<"B">>

\* loadSheet: one pass of the bus loop, on a bus element with the segments
\* segs
LoadBus(BusElems) ==
    /\ ld_pc = "sheets" /\ sh_pc = "segments"
    /\ sh_bus < CurSheet.nbus
    /\ \E segs \in BusElems :
          LET r == loadSegments(segs, items, nextId, m_netCounts, BusName,
                                sh_bus + 1)
          IN  /\ items' = r.l
              /\ nextId' = r.nid
              /\ m_netCounts' = r.counts
              /\ sh_elem' = [kind |-> "bus", name |-> BusName, segs |-> segs]
    /\ sh_bus' = sh_bus + 1
    /\ UNCHANGED <<varsEdit, varsLoad, varsLib, doc, asserted, ld_pc, ld_sheet, childSheets, sheet_xy, items0, be_pc,
                   be_bus, be_line, be_uaf, sh_pc, sh_net, sh_inst, sh_trans,
                   m_partlist>>

\* loadSheet: one pass of the net loop, on the next net element, with the
\* segments segs
LoadNet(NetElems) ==
    /\ ld_pc = "sheets" /\ sh_pc = "segments"
    /\ sh_bus = CurSheet.nbus
    /\ sh_net < Len(CurSheet.nets)
    /\ \E segs \in NetElems :
          LET netName == CurSheet.nets[sh_net + 1]
              r       == loadSegments(segs, items, nextId, m_netCounts, netName,
                                      sh_bus + sh_net + 1)
          IN  /\ items' = r.l
              /\ nextId' = r.nid
              /\ m_netCounts' = r.counts
              /\ sh_elem' = [kind |-> "net", name |-> netName, segs |-> segs]
    /\ sh_net' = sh_net + 1
    /\ UNCHANGED <<varsEdit, varsLoad, varsLib, doc, asserted, ld_pc, ld_sheet, childSheets, sheet_xy, items0, be_pc,
                   be_bus, be_line, be_uaf, sh_pc, sh_bus, sh_inst, sh_trans,
                   m_partlist>>

\* loadSheet calls addBusEntries when the net loop is over: bus =
\* GetDrawItems()
BusScanBegin ==
    /\ ld_pc = "sheets" /\ sh_pc = "segments"
    /\ sh_bus = CurSheet.nbus
    /\ sh_net = Len(CurSheet.nets)
    /\ be_pc = "idle"
    /\ sh_pc' = "busentries"
    /\ be_pc' = "outer"
    /\ be_bus' = First(items)
    /\ be_line' = NULL
    /\ items0' = items
    /\ UNCHANGED <<varsEdit, varsLoad, varsLib, doc, asserted, ld_pc, ld_sheet, childSheets, sheet_xy, items, nextId,
                   be_uaf, sh_bus, sh_net, sh_inst, sh_elem, sh_trans,
                   m_netCounts, m_partlist>>

\* the head of the outer loop: skip what is no bus line, or start the
\* inner loop at the first item, or return to loadSheet at the list's end
BusNextBus ==
    /\ sh_pc = "busentries" /\ be_pc = "outer"
    /\ IF be_bus = NULL
       THEN be_pc' = "done" /\ sh_pc' = "instances" /\ UNCHANGED <<be_bus, be_line>>
       ELSE IF ~IsBus(ItemOf(items, be_bus))
       THEN be_bus' = NextOf(items, be_bus) /\ UNCHANGED <<be_pc, be_line, sh_pc>>
       ELSE be_pc' = "inner" /\ be_line' = First(items) /\ UNCHANGED <<be_bus, sh_pc>>
    /\ UNCHANGED <<varsEdit, varsLoad, varsLib, doc, asserted, ld_pc, ld_sheet, childSheets, sheet_xy, items, items0,
                   nextId, be_uaf, sh_bus, sh_net, sh_inst, sh_elem, sh_trans,
                   m_netCounts, m_partlist>>

\* one pass of the inner loop: nextline is taken before the body runs.  A
\* use of the deleted line is undefined: the import crashes or goes on.
BusTestLine ==
    /\ sh_pc = "busentries" /\ be_pc = "inner"
    /\ be_line # NULL
    /\ \E misread \in
          IF LineBody(items, nextId, be_line, be_bus, {}).uaf
          THEN SUBSET {items[i].id : i \in {j \in 1..Len(items) : IsLabel(items[j])}}
          ELSE {{}} :
       LET nextline == NextOf(items, be_line)
           r        == LineBody(items, nextId, be_line, be_bus, misread)
       IN  /\ items' = r.l
           /\ nextId' = r.nid
           /\ be_uaf' = (be_uaf \/ r.uaf)
           /\ be_line' = nextline
           /\ be_bus' = IF nextline = NULL THEN NextOf(r.l, be_bus) ELSE be_bus
           /\ be_pc' \in (IF r.uaf THEN {"crashed"} ELSE {})
                         \cup {IF nextline = NULL THEN "outer" ELSE "inner"}
    /\ UNCHANGED <<varsEdit, varsLoad, varsLib, doc, asserted, ld_pc, ld_sheet, childSheets, sheet_xy, items0, sh_pc,
                   sh_bus, sh_net, sh_inst, sh_elem, sh_trans, m_netCounts,
                   m_partlist>>

(***************************************************************************)
(* Instances.  An instance element is [part, gate, rot, pos] with rot      *)
(* either <<>> or <<degrees>>; the instances of the model have no          *)
(* attribute child and are not smashed.                                    *)
(***************************************************************************)
\* kiCadComponentRotation: an unhandled rotation falls through to case 0
kiCadComponentRotation(roti) ==
    IF roti = 90 THEN "CMP_ORIENT_90"
    ELSE IF roti = 180 THEN "CMP_ORIENT_180"
    ELSE IF roti = 270 THEN "CMP_ORIENT_270"
    ELSE "CMP_ORIENT_0"

\* the characters of the names and values of the model, in code order
Alphabet == <<"1", "2", "3", "9", "D", "G", "L", "P", "X", "k">>

CharCode(c) == CHOOSE i \in 1..Len(Alphabet) : Alphabet[i] = c

\* time stamps and hashes are kept to this width
StampModulus == 2 ^ 16

RECURSIVE BitXor(_, _)
\* a ^ b on unsigned integers
BitXor(a, b) ==
    IF a = 0 THEN b
    ELSE IF b = 0 THEN a
    ELSE ((a + b) % 2) + 2 * BitXor(a \div 2, b \div 2)

RECURSIVE HashFrom(_, _, _)
HashFrom(str, i, h) ==
    IF i > Len(str) THEN h
    ELSE HashFrom(str, i + 1, (31 * h + CharCode(str[i])) % StampModulus)

\* std::hash<string>: a value computed from the characters alone
HashString(str) == HashFrom(str, 1, 7)

\* EagleModuleTstamp( aName, aValue, aUnit ): h1 ^ ( h2 << 1 ) ^ ( h3 << 2 )
\* of the hashes of the name, the value and the unit
EagleModuleTstamp(aName, aValue, aUnit) ==
    BitXor(BitXor(HashString(aName), (2 * HashString(aValue)) % StampModulus),
           (4 * aUnit) % StampModulus)

\* Component giving the component the id of its item as its time stamp
ComponentStampedById(id, pos, unit, orient, part, gate, value, tstamp) ==
    [BaseItem EXCEPT !.id = id, !.kind = "component", !.s = pos, !.e = pos,
                     !.unit = unit, !.orient = orient, !.part = part,
                     !.gate = gate, !.value = value, !.tstamp = id]

\* new SCH_COMPONENT as loadInstance sets it up
Component(id, pos, unit, orient, part, gate, value, tstamp) ==
    [BaseItem EXCEPT !.id = id, !.kind = "component", !.s = pos, !.e = pos,
                     !.unit = unit, !.orient = orient, !.part = part,
                     !.gate = gate, !.value = value, !.tstamp = tstamp]

\* what the reads through a null EPART pointer can yield when they do not
\* stop the process
GarbageParts == {EPart(<<>>, <<>>, <<>>, <<>>)}

\* loadInstance once epart is read: the unit looked up with operator[] in
\* m_eagleLibs and GateUnit, the part looked up by name in the output
\* library, and the component appended when the part is found
loadInstance(inst, epart, l, nid, partlib, elibs) ==
    LET libraryname == epart.library
        gatename    == epart.deviceset \o epart.device \o inst.gate
        symbolname  == SymbolName(epart.deviceset, epart.device)
        elibs1      == MapTouch(elibs, libraryname, NewEagleLibrary(<<>>))
        unit        == MapGet(elibs1[libraryname].GateUnit, gatename, 0)
        elibs2      == [elibs1 EXCEPT ![libraryname].GateUnit =
                           MapTouch(@, gatename, 0)]
        found       == symbolname \in DOMAIN partlib
        orient      == IF inst.rot = <<>> THEN "CMP_ORIENT_0"
                       ELSE kiCadComponentRotation(inst.rot[1])
        value       == Opt(epart.value, <<>>)
        tstamp      == EagleModuleTstamp(inst.part, value, unit)
    IN  [l      |-> IF found
                    THEN Append(l, Component(nid, inst.pos, unit, orient,
                                             inst.part, inst.gate, value,
                                             tstamp))
                    ELSE l,
         nid    |-> IF found THEN nid + 1 ELSE nid,
         elibs  |-> elibs2,
         added  |-> found,
         badRot |-> found /\ inst.rot # <<>>
                          /\ inst.rot[1] \notin SupportedRotations]

\* loadSheet: one pass of the instance loop.  A part name that m_partlist
\* does not hold yields a null pointer, and reading through it is undefined.
LoadInstance(InstElems) ==
    /\ ld_pc = "sheets" /\ sh_pc = "instances"
    /\ sh_inst < CurSheet.ninst
    /\ \E inst \in InstElems :
          LET held == MapGet(m_partlist, inst.part, NullEPart)
          IN  /\ m_partlist' = MapTouch(m_partlist, inst.part, NullEPart)
              /\ \E epart \in (IF held.null THEN GarbageParts ELSE {held}) :
                    LET r == loadInstance(inst, epart, items, nextId,
                                          m_partlib, m_eagleLibs)
                    IN  /\ items' = r.l
                        /\ nextId' = r.nid
                        /\ m_eagleLibs' = r.elibs
                        /\ asserted' = (asserted \/ r.badRot)
                        /\ sh_elem' = [kind |-> "instance", inst |-> inst,
                                       nullPart |-> held.null,
                                       added |-> r.added, id |-> nextId]
                        /\ ld_pc' \in (IF held.null \/ r.badRot
                                       THEN {"crashed"} ELSE {})
                                      \cup {"sheets"}
    /\ sh_inst' = sh_inst + 1
    /\ UNCHANGED <<varsEdit, varsLoad, doc, ld_sheet, childSheets, sheet_xy, items0, be_pc, be_bus, be_line, be_uaf,
                   sh_pc, sh_bus, sh_net, sh_trans, m_netCounts, m_partlib,
                   lib_pc, lib_idx, dev_idx, gateindex, kpart, ispower>>

(***************************************************************************)
(* The end of loadSheet: the bounding box of the items, the page grown to  *)
(* hold it, and the items moved to the middle of the page.  A box is       *)
(* <<left, top, right, bottom>>.                                           *)
(***************************************************************************)
\* SCH_ITEM::GetBoundingBox, without the margin of pen widths and text
BoundingBox(it) ==
    <<Min(it.s[1], it.e[1]), Min(it.s[2], it.e[2]),
      Max(it.s[1], it.e[1]), Max(it.s[2], it.e[2])>>

\* EDA_RECT::Merge
Merge(a, b) == <<Min(a[1], b[1]), Min(a[2], b[2]), Max(a[3], b[3]), Max(a[4], b[4])>>

RECURSIVE MergeFrom(_, _, _)
MergeFrom(l, i, box) ==
    IF i > Len(l) THEN box ELSE MergeFrom(l, i + 1, Merge(box, BoundingBox(l[i])))

\* the box of a non-empty item list
sheetBoundingBox(l) == MergeFrom(l, 2, BoundingBox(l[1]))

\* the page of a new screen, in mils
PageSizeIU == <<11693, 8268>>

\* the margin added to the bounding box
SheetMargin == <<1500, 1500>>

\* the page size after it was grown to the target size where smaller
GrownPage(box) ==
    LET target == PAdd(<<box[3] - box[1], box[4] - box[2]>>, SheetMargin)
    IN  <<Max(PageSizeIU[1], target[1]), Max(PageSizeIU[2], target[2])>>

\* Translation without the rounding
TranslationUnrounded(box) ==
    LET page   == GrownPage(box)
        centre == <<box[1] + CDiv(box[3] - box[1], 2),
                    box[2] + CDiv(box[4] - box[2], 2)>>
    IN  PSub(<<CDiv(page[1], 2), CDiv(page[2], 2)>>, centre)

\* the translation, rounded towards zero to a multiple of 100
Translation(box) ==
    LET page   == GrownPage(box)
        centre == <<box[1] + CDiv(box[3] - box[1], 2),
                    box[2] + CDiv(box[4] - box[2], 2)>>
        t      == PSub(<<CDiv(page[1], 2), CDiv(page[2], 2)>>, centre)
    IN  <<t[1] - CMod(t[1], 100), t[2] - CMod(t[2], 100)>>

\* item->SetPosition( item->GetPosition() + translation ) for every item
Translated(l, t) ==
    [i \in 1..Len(l) |-> [l[i] EXCEPT !.s = PAdd(@, t), !.e = PAdd(@, t)]]

\* loadSheet: the instance loop is over; the items are boxed and moved and
\* the sheet loop goes on.  The box of an empty list is taken from a null
\* item, which is undefined.
FinishSheet ==
    /\ ld_pc = "sheets" /\ sh_pc = "instances"
    /\ sh_inst = CurSheet.ninst
    /\ LET t == IF items = <<>> THEN <<0, 0>>
                ELSE Translation(sheetBoundingBox(items))
           more == IF ld_sheet < Len(doc.sheets) THEN "sheets" ELSE "done"
       IN  /\ items' = Translated(items, t)
           /\ sh_trans' = t
           /\ ld_pc' \in (IF items = <<>> THEN {"crashed"} ELSE {}) \cup {more}
    /\ sh_pc' = "none"
    /\ ld_sheet' = ld_sheet + 1
    /\ sheet_xy' = IF Len(doc.sheets) > 1 THEN NextCell(sheet_xy) ELSE sheet_xy
    /\ UNCHANGED <<varsEdit, childSheets, varsLoad, varsLib, doc, asserted, items0, nextId, be_pc, be_bus,
                   be_line, be_uaf, sh_bus, sh_net, sh_inst, sh_elem,
                   m_netCounts, m_partlist>>

\* Load returns the root sheet, and the caller calls Load on the same
\* plugin a second time, with another document and the sheet it was given
\* as aAppendToMe: the root sheet and its screen, with the items of the
\* first call, are kept, m_partlib is a new library without parts, and the
\* members m_partlist, m_eagleLibs and m_netCounts are as the first call
\* left them.  The call goes as far as the entry of loadSchematic.
LoadAgain(NewDocs) ==
    /\ ld_pc = "done" /\ calls = 0
    /\ \E d \in NewDocs : doc' = d
    /\ calls' = calls + 1
    /\ m_partlib' = EmptyMap
    /\ ld_pc' = "parts" /\ ld_sheet' = 0 /\ sheet_xy' = <<0, 0>>
    /\ lib_pc' = "start" /\ lib_idx' = 1 /\ dev_idx' = 1 /\ gateindex' = 1
    /\ kpart' = NoPart /\ ispower' = FALSE
    /\ UNCHANGED <<varsEdit, varsBus, m_rootSheet, heap, ld_last, asserted,
                   childSheets, sh_pc, sh_bus, sh_net, sh_inst, sh_elem,
                   sh_trans, m_netCounts, m_partlist, m_eagleLibs>>

(***************************************************************************)
(* The three callers of eagleToKicadAlignment, each on its own element:    *)
(* the NAME / VALUE attribute of an instance, the text of a symbol and the *)
(* text of a sheet's plain element.  The element is [loader, name, align,  *)
(* rot, inst], inst being the rot of the instance an attribute belongs to. *)
(***************************************************************************)
varsImport == <<varsBus, varsSheet, varsLib, varsLoad, doc, ld_pc, asserted>>

\* no element was given, no text was made
NoText == [loader |-> "none"]

\* an EDA_TEXT as constructed
NewText == [angle |-> 0, hjustify |-> "", vjustify |-> ""]

\* loadInstance, the alignment of the field an attribute names
AttributeAlignment(field, attr, einstance) ==
    LET align      == Opt(attr.align, "BOTTOM_LEFT")
        absdegrees == Opt(attr.rot, NoRot).degrees
        attrMirror == Opt(attr.rot, NoRot).mirror
        mirror     == IF einstance # <<>> /\ einstance[1].mirror
                      THEN ~attrMirror ELSE attrMirror
        spin       == Opt(attr.rot, NoRot).spin
        rotation   == Opt(einstance, NoRot).degrees
        \* int reldegrees = absdegrees - rotation + 360; reldegrees %= 360:
        \* the remainder has the sign of the dividend
        reldegrees == CMod(absdegrees - rotation + 360, 360)
    IN  eagleToKicadAlignment(field, align, reldegrees, mirror, spin, absdegrees)

\* loadPlainText: the alignment is worked out with 0 for the absolute
\* rotation
loadPlainText(c) ==
    LET rot == Opt(c.rot, NoRot)
    IN  eagleToKicadAlignment(NewText, Opt(c.align, "BOTTOM_LEFT"), rot.degrees,
                              rot.mirror, rot.spin, 0)

\* the field of the component an attribute names, after the values of the
\* library part's field were imported into it (ImportValues copies the
\* text angle of the library field; the justification is set anew by
\* eagleToKicadAlignment)
ImportedField(attr) == [NewText EXCEPT !.angle = attr.fieldangle]

LoadAttribute ==
    /\ edatext = NoText
    /\ etext.loader = "attribute"
    /\ edatext' = AttributeAlignment(ImportedField(etext), etext, etext.inst)
    /\ UNCHANGED <<varsImport, varsBlock, varsPad, etext>>

LoadSymbolText ==
    /\ edatext = NoText
    /\ etext.loader = "symbol"
    /\ edatext' = loadSymbolText(etext, 1)
    /\ UNCHANGED <<varsImport, varsBlock, varsPad, etext>>

LoadPlainText ==
    /\ edatext = NoText
    /\ etext.loader = "plain"
    /\ edatext' = loadPlainText(etext)
    /\ UNCHANGED <<varsImport, varsBlock, varsPad, etext>>

\* no text is being loaded
TextIdle == etext = NoText /\ edatext = NoText

(***************************************************************************)
(* The block commands of the library editor (block_libedit.cpp).  The      *)
(* component is known by the number of its items the block rectangle       *)
(* covers, the number of its items that are selected, and the last edit    *)
(* applied to the selected items.  The cursor callbacks are known by       *)
(* their names.                                                            *)
(***************************************************************************)
MaxUndo == 2

\* a command value that is none of the named ones (ReturnBlockCommand's
\* default gives key & 0x255)
OtherCommand == "other"

BlockCommands ==
    {"BLOCK_IDLE", "BLOCK_MOVE", "BLOCK_COPY", "BLOCK_SAVE", "BLOCK_DELETE",
     "BLOCK_PASTE", "BLOCK_DRAG", "BLOCK_ROTATE", "BLOCK_FLIP", "BLOCK_ZOOM",
     "BLOCK_ABORT", "BLOCK_PRESELECT_MOVE", "BLOCK_MIRROR_X",
     "BLOCK_MIRROR_Y", "BLOCK_SELECT_ITEMS_ONLY", OtherCommand}

IdleBlock ==
    [m_State |-> "STATE_NO_BLOCK", m_Command |-> "BLOCK_IDLE", m_Flags |-> 0,
     count |-> 0]

IdleScreen == [m_BlockLocate |-> IdleBlock, curItem |-> NULL, modify |-> FALSE]

\* a callback pointer that is NULL
NoCallback == "NULL"

IdlePanel ==
    [ManageCurseur |-> NoCallback, ForceCloseManageCurseur |-> NoCallback]

NoComponent == [null |-> TRUE, inblock |-> 0, selected |-> 0, edit |-> "none"]

\* what the close callback called at line 83 may leave in the fields that
\* lines 84-87 do not overwrite: each is kept or cleared
CloseOutcomes ==
    {[scr |-> [screen EXCEPT !.m_BlockLocate.m_Flags = fl,
                             !.m_BlockLocate.count = n,
                             !.curItem = ci],
       comp |-> [m_component EXCEPT !.selected = sel]] :
        fl \in {0, screen.m_BlockLocate.m_Flags},
        n \in {0, screen.m_BlockLocate.count},
        ci \in {NULL, screen.curItem},
        sel \in {0, m_component.selected}}

\* lines 93-173: the switch of HandleBlockEnd on a frame f (scr, panel,
\* comp, undo), with the local nextCmd
BlockEndSwitch(f) ==
    LET cmd  == f.scr.m_BlockLocate.m_Command
        \* SelectItems selects the items the block covers, returns their number
        ItemCount == IF f.comp.null THEN 0 ELSE f.comp.inblock
        sel  == IF f.comp.null THEN f.comp
                ELSE [f.comp EXCEPT !.selected = f.comp.inblock]
        und  == IF ItemCount # 0 THEN f.undo + 1 ELSE f.undo
    IN  CASE cmd \in {"BLOCK_DRAG", "BLOCK_MOVE", "BLOCK_COPY"} ->
                IF ItemCount # 0
                THEN [f EXCEPT !.comp = sel, !.nextCmd = TRUE,
                        !.panel.ManageCurseur =
                            IF @ # NoCallback THEN "DrawMovingBlockOutlines" ELSE @,
                        !.scr.m_BlockLocate.m_State = "STATE_BLOCK_MOVE"]
                ELSE [f EXCEPT !.comp = sel]
          [] cmd = "BLOCK_PRESELECT_MOVE" ->
                [f EXCEPT !.nextCmd = TRUE,
                    !.panel.ManageCurseur = "DrawMovingBlockOutlines",
                    !.scr.m_BlockLocate.m_State = "STATE_BLOCK_MOVE"]
          [] cmd = "BLOCK_DELETE" ->
                IF f.comp.null THEN f
                ELSE [f EXCEPT !.undo = und, !.scr.modify = TRUE,
                        !.comp = [sel EXCEPT !.inblock = 0, !.selected = 0,
                                    !.edit = "deleted"]]
          [] cmd = "BLOCK_MIRROR_Y" ->
                IF f.comp.null THEN f
                ELSE [f EXCEPT !.undo = und, !.scr.modify = TRUE,
                        !.comp = [sel EXCEPT !.edit = "mirrored"]]
          [] OTHER -> f

\* lines 175-189: no place command follows, the block command is over
BlockEndReset(f) ==
    IF f.nextCmd THEN f
    ELSE [f EXCEPT
            !.comp = IF f.scr.m_BlockLocate.m_Command # "BLOCK_SELECT_ITEMS_ONLY"
                        /\ ~f.comp.null
                     THEN [@ EXCEPT !.selected = 0] ELSE @,
            !.scr.m_BlockLocate.m_Flags = 0,
            !.scr.m_BlockLocate.m_State = "STATE_NO_BLOCK",
            !.scr.m_BlockLocate.m_Command = "BLOCK_IDLE",
            !.panel = IdlePanel,
            !.scr.curItem = NULL]

\* HandleBlockEnd up to the return, or, for the command BLOCK_IDLE, up to
\* DisplayError at line 96: the error box is modal and the call goes on
\* when it is closed
HandleBlockEnd ==
    /\ undoCount < MaxUndo
    /\ ~blk_last.crashed
    /\ blk_last.call # "box"
    /\ IF screen.m_BlockLocate.count # 0
          /\ DrawPanel.ForceCloseManageCurseur = NoCallback
       THEN \* line 83 calls through a null function pointer
            /\ blk_last' = [call |-> "end", ret |-> FALSE, crashed |-> TRUE,
                            entry |-> screen.m_BlockLocate.m_Command,
                            curseur |-> DrawPanel.ManageCurseur]
            /\ UNCHANGED <<screen, DrawPanel, m_component, undoCount>>
       ELSE \E o \in IF screen.m_BlockLocate.count # 0 THEN CloseOutcomes
                     ELSE {[scr |-> screen, comp |-> m_component]} :
            LET f0 == [scr |-> [o.scr EXCEPT
                                 !.m_BlockLocate.m_State =
                                     screen.m_BlockLocate.m_State,
                                 !.m_BlockLocate.m_Command =
                                     screen.m_BlockLocate.m_Command],
                       panel |-> IF screen.m_BlockLocate.count # 0
                                 THEN [ManageCurseur |->
                                           "DrawAndSizingBlockOutlines",
                                       ForceCloseManageCurseur |->
                                           "AbortBlockCurrentCommand"]
                                 ELSE DrawPanel,
                       comp |-> o.comp, undo |-> undoCount,
                       nextCmd |-> FALSE]
                box == f0.scr.m_BlockLocate.m_Command = "BLOCK_IDLE"
                f  == IF box THEN f0 ELSE BlockEndReset(BlockEndSwitch(f0))
            IN  /\ screen' = f.scr
                /\ DrawPanel' = f.panel
                /\ m_component' = f.comp
                /\ undoCount' = f.undo
                /\ blk_last' = [call |-> IF box THEN "box" ELSE "end",
                                ret |-> f.nextCmd,
                                crashed |-> FALSE,
                                entry |-> screen.m_BlockLocate.m_Command,
                                curseur |-> DrawPanel.ManageCurseur]
    /\ UNCHANGED <<varsImport, varsText, varsPad>>

\* the error box of line 96 is closed: HandleBlockEnd leaves the switch
\* with nextCmd false, resets the block (lines 175-189) and returns
DisplayErrorClosed ==
    /\ blk_last.call = "box"
    /\ LET f == BlockEndReset([scr |-> screen, panel |-> DrawPanel,
                               comp |-> m_component, undo |-> undoCount,
                               nextCmd |-> FALSE])
       IN  /\ screen' = f.scr
           /\ DrawPanel' = f.panel
           /\ m_component' = f.comp
           /\ undoCount' = f.undo
           /\ blk_last' = [blk_last EXCEPT !.call = "end"]
    /\ UNCHANGED <<varsImport, varsText, varsPad>>

\* lines 215-264: the switch of HandleBlockPlace
BlockPlaceSwitch(f) ==
    LET cmd == f.scr.m_BlockLocate.m_Command
        und == IF f.comp.null THEN f.undo ELSE f.undo + 1
        Edited(e) == IF f.comp.null THEN f.comp ELSE [f.comp EXCEPT !.edit = e]
    IN  CASE cmd \in {"BLOCK_DRAG", "BLOCK_MOVE", "BLOCK_PRESELECT_MOVE"} ->
                [f EXCEPT !.scr.m_BlockLocate.count = 0, !.undo = und,
                          !.comp = Edited("moved")]
          [] cmd = "BLOCK_COPY" ->
                [f EXCEPT !.scr.m_BlockLocate.count = 0, !.undo = und,
                          !.comp = Edited("copied")]
          [] cmd = "BLOCK_PASTE" ->
                [f EXCEPT !.scr.m_BlockLocate.count = 0]
          [] cmd = "BLOCK_MIRROR_Y" ->
                [f EXCEPT !.undo = und, !.comp = Edited("mirrored")]
          [] OTHER -> f

\* lines 266-273 without line 272: the command is left as it was
BlockPlaceEndKeepsCommand(f) ==
    [f EXCEPT !.scr.modify = TRUE,
              !.panel = IdlePanel,
              !.scr.m_BlockLocate.m_Flags = 0,
              !.scr.m_BlockLocate.m_State = "STATE_NO_BLOCK",
              !.scr.curItem = NULL]

\* lines 266-273: the end of every block place
BlockPlaceEnd(f) ==
    [f EXCEPT !.scr.modify = TRUE,
              !.panel = IdlePanel,
              !.scr.m_BlockLocate.m_Flags = 0,
              !.scr.m_BlockLocate.m_State = "STATE_NO_BLOCK",
              !.scr.m_BlockLocate.m_Command = "BLOCK_IDLE",
              !.scr.curItem = NULL]

\* HandleBlockPlace; the error box of line 210 is shown before anything is
\* changed, so the call is one step from the closing of the box
HandleBlockPlace ==
    /\ undoCount < MaxUndo
    /\ ~blk_last.crashed
    /\ blk_last.call # "box"
    /\ LET f0 == [scr |-> [screen EXCEPT
                            !.m_BlockLocate.m_State = "STATE_BLOCK_STOP"],
                  panel |-> DrawPanel, comp |-> m_component,
                  undo |-> undoCount]
           f  == BlockPlaceEnd(BlockPlaceSwitch(f0))
       IN  /\ screen' = f.scr
           /\ DrawPanel' = f.panel
           /\ m_component' = f.comp
           /\ undoCount' = f.undo
           /\ blk_last' = [call |-> "place", ret |-> FALSE,
                           crashed |-> FALSE,
                           entry |-> screen.m_BlockLocate.m_Command,
                           curseur |-> DrawPanel.ManageCurseur]
    /\ UNCHANGED <<varsImport, varsText, varsPad>>

NoBlockCall ==
    [call |-> "none", ret |-> FALSE, crashed |-> FALSE, entry |-> "BLOCK_IDLE",
     curseur |-> NoCallback]

\* no block command was ever given
BlockIdle ==
    /\ screen = IdleScreen /\ DrawPanel = IdlePanel
    /\ m_component = NoComponent /\ undoCount = 0
    /\ blk_last = NoBlockCall

(***************************************************************************)
(* Moving and dragging a pad in the board editor (move-drag_pads.cpp).     *)
(* A footprint of orientation 0 with the pads PadIds; a track end is on a  *)
(* pad when it lies within PadHalfWidth of the pad's position, on the same *)
(* horizontal.  Drawing, the message panel, and the teardrop and rounded   *)
(* corner lists have no part in the positions and are left out.            *)
(***************************************************************************)
PadIds == {1}

PadHalfWidth == 10

MaxPadUndo == 1

NoCapture == [move |-> NoCallback, end |-> NoCallback]

OnPad(pad, p) == p[2] = pad.pos[2] /\ Abs(p[1] - pad.pos[1]) <= PadHalfWidth

\* DRAG_LIST::BuildDragListe: one entry for every track with an end on aPad,
\* that keeps the ends, and their offsets to the pad
RECURSIVE BuildDragListe(_, _, _, _)
BuildDragListe(aPad, pds, trks, i) ==
    IF i > Len(trks) THEN <<>>
    ELSE LET s == OnPad(pds[aPad], trks[i].start)
             e == OnPad(pds[aPad], trks[i].end)
             entry == [m_Track |-> i,
                       m_Pad_Start |-> IF s THEN aPad ELSE NULL,
                       m_Pad_End |-> IF e THEN aPad ELSE NULL,
                       m_startInitialValue |-> trks[i].start,
                       m_endInitialValue |-> trks[i].end,
                       m_PadStartOffset |-> PSub(trks[i].start, pds[aPad].pos),
                       m_PadEndOffset |-> PSub(trks[i].end, pds[aPad].pos)]
         IN  (IF s \/ e THEN <<entry>> ELSE <<>>)
                \o BuildDragListe(aPad, pds, trks, i + 1)

\* the tracks after the track of every entry k of the list became new[k]
OnDragged(list, trks, new) ==
    [i \in DOMAIN trks |->
        IF \E k \in DOMAIN list : list[k].m_Track = i
        THEN new[CHOOSE k \in DOMAIN list : list[k].m_Track = i]
        ELSE trks[i]]

\* DRAG_SEGM_PICKER::SetTrackEndsCoordinates: an end that is on a pad
\* follows the pad, at its offset
SetTrackEndsCoordinates(entry, aOffset, pds, trk) ==
    [trk EXCEPT
        !.start = IF entry.m_Pad_Start # NULL
                  THEN PAdd(PSub(pds[entry.m_Pad_Start].pos, aOffset),
                            entry.m_PadStartOffset)
                  ELSE @,
        !.end = IF entry.m_Pad_End # NULL
                THEN PAdd(PSub(pds[entry.m_Pad_End].pos, aOffset),
                          entry.m_PadEndOffset)
                ELSE @]

\* DRAG_SEGM_PICKER::RestoreInitialValues
RestoreInitialValues(entry, trk) ==
    [trk EXCEPT !.start = entry.m_startInitialValue,
                !.end = entry.m_endInitialValue]

\* the tracks after EraseDragList, which clears the flags of the listed ones
EraseDragList(list, trks) ==
    LET Clear(entry, trk) == [trk EXCEPT !.flags = FALSE]
    IN  OnDragged(list, trks,
            [k \in DOMAIN list |-> Clear(list[k], trks[list[k].m_Track])])

\* line 192 left out: the pad is not put back before the undo entry is made
UndoPositionNotRestored(pad_curr_position, oldpos) == pad_curr_position

\* lines 190-192: the position of the pad while the undo entry is recorded
UndoPosition(pad_curr_position, oldpos) == oldpos

StartMovePad ==
    \E aPad \in PadIds \cup {NULL}, aDragConnectedTracks \in BOOLEAN :
        /\ pad_last' = [call |-> "start", aPad |-> aPad, moving |-> FALSE,
                        pos |-> <<0, 0>>, list |-> <<>>]
        /\ IF aPad = NULL
           THEN UNCHANGED <<m_Pads, tracks, g_DragSegmentList,
                            s_CurrentSelectedPad, Pad_OldPos, mouseCapture,
                            pick_list, pcbUndo, pad_start>>
           ELSE LET erased == EraseDragList(g_DragSegmentList, tracks)
                    list == IF aDragConnectedTracks
                            THEN BuildDragListe(aPad, m_Pads, erased, 1)
                            ELSE <<>>
                    \* UndrawAndMarkSegmentsToDrag
                    Mark(entry, trk) ==
                        [trk EXCEPT !.inEdit = FALSE, !.flags = TRUE]
                IN  /\ s_CurrentSelectedPad' = aPad
                    /\ Pad_OldPos' = m_Pads[aPad].pos
                    /\ mouseCapture' = [move |-> "Show_Pad_Move",
                                        end |-> "Abort_Move_Pad"]
                    /\ m_Pads' = [m_Pads EXCEPT ![aPad].flags = TRUE]
                    /\ g_DragSegmentList' = list
                    /\ pick_list' =
                          [k \in DOMAIN list |->
                              [item |-> list[k].m_Track,
                               link |-> [erased[list[k].m_Track]
                                            EXCEPT !.inEdit = FALSE]]]
                    /\ tracks' = OnDragged(list, erased,
                          [k \in DOMAIN list |->
                              Mark(list[k], erased[list[k].m_Track])])
                    /\ pad_start' = [pad |-> aPad, pos |-> m_Pads[aPad].pos,
                                     tracks |-> tracks, list |-> list]
                    /\ UNCHANGED pcbUndo
        /\ UNCHANGED <<varsImport, varsText, varsBlock>>

\* the positions the cross hair is moved to
CrossHairs == {<<0, 0>>, <<200, 100>>}

Show_Pad_Move ==
    /\ mouseCapture.move = "Show_Pad_Move"
    /\ \E aPosition \in CrossHairs :
        LET pad == s_CurrentSelectedPad
            moved == [m_Pads EXCEPT ![pad].pos = aPosition]
            Follow(entry, trk) ==
                SetTrackEndsCoordinates(entry, <<0, 0>>, moved, trk)
        IN  /\ pad_last' = [call |-> "show", aPad |-> pad, moving |-> TRUE,
                            pos |-> <<0, 0>>, list |-> <<>>]
            /\ IF pad = NULL
               THEN UNCHANGED <<m_Pads, tracks>>
               ELSE /\ m_Pads' = moved
                    /\ tracks' = OnDragged(g_DragSegmentList, tracks,
                        [k \in DOMAIN g_DragSegmentList |->
                            Follow(g_DragSegmentList[k],
                               tracks[g_DragSegmentList[k].m_Track])])
    /\ UNCHANGED <<g_DragSegmentList, s_CurrentSelectedPad, Pad_OldPos,
                   mouseCapture, pick_list, pcbUndo, pad_start>>
    /\ UNCHANGED <<varsImport, varsText, varsBlock>>

\* line 43 left out: the pad stays where it was moved to
AbortedPadNotMoved(pad, oldpos) == [pad EXCEPT !.flags = FALSE]

\* lines 42-43: the pad of a cancelled move
AbortedPad(pad, oldpos) == [pad EXCEPT !.flags = FALSE, !.pos = oldpos]

Abort_Move_Pad ==
    /\ mouseCapture.end = "Abort_Move_Pad"
    /\ LET pad == s_CurrentSelectedPad
           Restore(entry, trk) ==
               RestoreInitialValues(entry,
                   [trk EXCEPT !.inEdit = FALSE, !.flags = FALSE])
       IN  /\ pad_last' = [call |-> "abort", aPad |-> pad, moving |-> TRUE,
                           pos |-> IF pad = NULL THEN <<0, 0>>
                                   ELSE m_Pads[pad].pos,
                           list |-> <<>>]
           /\ mouseCapture' = NoCapture
           /\ IF pad = NULL
              THEN UNCHANGED <<m_Pads, tracks, g_DragSegmentList,
                               s_CurrentSelectedPad>>
              ELSE /\ m_Pads' = [m_Pads EXCEPT
                                    ![pad] = AbortedPad(@, Pad_OldPos)]
                   /\ tracks' = EraseDragList(g_DragSegmentList,
                                   OnDragged(g_DragSegmentList, tracks,
                        [k \in DOMAIN g_DragSegmentList |->
                            Restore(g_DragSegmentList[k],
                               tracks[g_DragSegmentList[k].m_Track])]))
                   /\ g_DragSegmentList' = <<>>
                   /\ s_CurrentSelectedPad' = NULL
    /\ UNCHANGED <<Pad_OldPos, pick_list, pcbUndo, pad_start>>
    /\ UNCHANGED <<varsImport, varsText, varsBlock>>

PlacePad ==
    /\ Len(pcbUndo.list) < MaxPadUndo
    /\ \E aPad \in PadIds \cup {NULL} :
        /\ pad_last' = [call |-> "place", aPad |-> aPad,
                        moving |-> /\ aPad # NULL
                                   /\ aPad = s_CurrentSelectedPad
                                   /\ mouseCapture.move = "Show_Pad_Move",
                        pos |-> IF aPad = NULL THEN <<0, 0>>
                                ELSE m_Pads[aPad].pos,
                        list |-> IF aPad = NULL THEN <<>>
                                 ELSE g_DragSegmentList]
        /\ IF aPad = NULL
           THEN UNCHANGED <<m_Pads, tracks, g_DragSegmentList, mouseCapture,
                            pick_list, pcbUndo>>
           ELSE LET pad_curr_position == m_Pads[aPad].pos
                    saved == [m_Pads EXCEPT
                                ![aPad].flags = FALSE,
                                ![aPad].pos =
                                    UndoPosition(pad_curr_position, Pad_OldPos)]
                    picked == Append(pick_list,
                                     [item |-> "module", link |-> NULL])
                    placed == [saved EXCEPT ![aPad].pos = pad_curr_position]
                    New(entry, trk) ==
                        LET t == SetTrackEndsCoordinates(entry, <<0, 0>>,
                                                         placed, trk)
                        IN  [t EXCEPT
                                !.start = IF entry.m_Pad_Start # NULL
                                          THEN placed[aPad].pos ELSE @,
                                !.end = IF entry.m_Pad_End # NULL
                                        THEN placed[aPad].pos ELSE @,
                                !.inEdit = FALSE, !.flags = FALSE]
                    d == PSub(placed[aPad].pos, Pad_OldPos)
                IN  /\ pick_list' = picked
                    /\ pcbUndo' = [list |-> Append(pcbUndo.list,
                                       [picked |-> picked, module |-> saved]),
                                   modify |-> TRUE]
                    /\ m_Pads' = [placed EXCEPT ![aPad].pos0 = PAdd(d, @)]
                    /\ tracks' = EraseDragList(g_DragSegmentList,
                                    OnDragged(g_DragSegmentList, tracks,
                        [k \in DOMAIN g_DragSegmentList |->
                            New(g_DragSegmentList[k],
                               tracks[g_DragSegmentList[k].m_Track])]))
                    /\ g_DragSegmentList' = <<>>
                    /\ mouseCapture' = NoCapture
    /\ UNCHANGED <<s_CurrentSelectedPad, Pad_OldPos, pad_start>>
    /\ UNCHANGED <<varsImport, varsText, varsBlock>>

NoPadCall ==
    [call |-> "none", aPad |-> NULL, moving |-> FALSE, pos |-> <<0, 0>>,
     list |-> <<>>]

NoPadStart == [pad |-> NULL, pos |-> <<0, 0>>, tracks |-> <<>>, list |-> <<>>]

\* a board editor in which no pad was ever moved: the statics are zero
PadStatics ==
    /\ g_DragSegmentList = <<>> /\ s_CurrentSelectedPad = NULL
    /\ Pad_OldPos = <<0, 0>> /\ mouseCapture = NoCapture
    /\ pick_list = <<>> /\ pcbUndo = [list |-> <<>>, modify |-> FALSE]
    /\ pad_start = NoPadStart /\ pad_last = NoPadCall

\* no board is open
PadIdle ==
    /\ PadStatics
    /\ m_Pads = <<>> /\ tracks = <<>>

\* the editors are idle
NoEdit == TextIdle /\ BlockIdle /\ PadIdle

vars == <<varsBus, varsSheet, varsLib, varsLoad, varsEdit, doc, ld_pc, asserted>>

\* a plugin that was just constructed, given the document d to load
Constructed(d) ==
    /\ doc = d
    /\ items = <<>> /\ items0 = <<>> /\ nextId = 1
    /\ be_pc = "idle" /\ be_bus = NULL /\ be_line = NULL /\ be_uaf = FALSE
    /\ ld_pc = "parts" /\ ld_sheet = 0
    /\ childSheets = <<>> /\ sheet_xy = <<0, 0>>
    /\ sh_pc = "none" /\ sh_bus = 0 /\ sh_net = 0 /\ sh_inst = 0
    /\ sh_elem = [kind |-> "none"] /\ sh_trans = <<0, 0>>
    /\ m_netCounts = EmptyMap /\ m_partlist = EmptyMap
    /\ m_partlib = EmptyMap /\ m_eagleLibs = EmptyMap
    /\ lib_pc = "start" /\ lib_idx = 1 /\ dev_idx = 1 /\ gateindex = 1
    /\ kpart = NoPart /\ ispower = FALSE /\ asserted = FALSE
    /\ m_rootSheet = NULL /\ heap = <<>> /\ calls = 0
    /\ ld_last = [outcome |-> "none"]

Fresh(d) == Constructed(d) /\ NoEdit

(***************************************************************************)
(* The documents of the model.                                             *)
(***************************************************************************)
MaxSegs == 2

MaxInsts == 2

Sheet(nets, nbus, ninst) == [nets |-> nets, nbus |-> nbus, ninst |-> ninst]

Doc(parts, libs, sheets) == [parts |-> parts, libs |-> libs, sheets |-> sheets]

\* the second name is one that escapeName changes
NetNames == {<<"A">>, <<"!", "B">>}

\* the net elements of a sheet: none, one, or two of the same or of
\* different names
NetLists ==
    {<<>>} \cup {<<a>> : a \in NetNames} \cup {<<a, b>> : a \in NetNames, b \in NetNames}

\* the k-th segment of an element lies on the line y = 100 * k
SegWire(k) == Child("wire", "wire", <<0, 100 * k>>, <<200, 100 * k>>)

SegKinds == {"W", "WL", "WW", "L"}

\* a segment of a wire, of a wire with a label on it, of two wires, or of
\* a label alone
Segment(kind, k) ==
    IF kind = "W" THEN <<SegWire(k)>>
    ELSE IF kind = "WL"
    THEN <<Child("label", "", <<0, 100 * k>>, <<0, 100 * k>>), SegWire(k)>>
    ELSE IF kind = "WW"
    THEN <<SegWire(k),
           Child("wire", "wire", <<200, 100 * k>>, <<200, 100 * k + 50>>)>>
    ELSE <<Child("label", "", <<300, 100 * k>>, <<300, 100 * k>>)>>

\* the net elements of one to MaxSegs segments
AllShapes ==
    UNION {{[k \in 1..n |-> Segment(f[k], k)] : f \in [1..n -> SegKinds]}
              : n \in 1..MaxSegs}

\* a net element of one segment: a wire, with or without a label
SimpleShapes == {<<Segment("W", 1)>>, <<Segment("WL", 1)>>}

\* a bus element of one segment: a vertical bus line that the start of
\* every SegWire lies on
BusShapes == {<<<<Child("wire", "bus", <<0, 0>>, <<0, 300>>)>>>>}

PinChild(name, rot, visible, direction) ==
    [kind |-> "pin", name |-> name, rot |-> rot, visible |-> visible,
     direction |-> direction, length |-> <<>>, function |-> <<>>]

TextChild(name) == [kind |-> "text", name |-> name, align |-> <<>>, rot |-> <<>>]

ShapeChild(kind) == [kind |-> kind, curve |-> FALSE]

Gate(name, symbol) == [name |-> name, symbol |-> symbol]

Device(name, package, connects) ==
    [name |-> name, package |-> package, connects |-> connects]

Connect(gate, pin, pad) == [gate |-> gate, pin |-> pin, pad |-> pad]

Library(name, dsname, prefix, symbols, gates, devices) ==
    [name |-> name, dsname |-> dsname, prefix |-> prefix, symbols |-> symbols,
     gates |-> gates, devices |-> devices]

Part(name, library, deviceset, device, value) ==
    [name |-> name, library |-> library, deviceset |-> deviceset,
     device |-> device, value |-> value]

\* a library "L" of one deviceset "D" with two gates of the same symbol and
\* one device without a name
SheetLibs ==
    <<Library(<<"L">>, <<"D">>, <<"U">>,
              [n \in {<<"S">>} |->
                  <<PinChild(<<"A">>, <<>>, <<>>, <<>>), TextChild(NameText)>>],
              <<Gate(<<"G", "1">>, <<"S">>), Gate(<<"G", "2">>, <<"S">>)>>,
              <<Device(<<>>, <<>>, <<>>)>>)>>

\* P1 resolves and has a value; P2 names a library and P3 a deviceset the
\* document lacks, and neither has a value
SheetParts ==
    <<Part(<<"P", "1">>, <<"L">>, <<"D">>, <<>>, <<<<"1", "k">>>>),
      Part(<<"P", "2">>, <<"L", "X">>, <<"D">>, <<>>, <<>>),
      Part(<<"P", "3">>, <<"L">>, <<"D", "X">>, <<>>, <<>>)>>

Instance(part, gate, rot) ==
    [part |-> part, gate |-> gate, rot |-> rot, pos |-> <<100, 100>>]

\* instances of the three parts and of a part the document lacks, of the
\* two gates and of a gate the deviceset lacks, unrotated or rotated
AllInsts ==
    {Instance(p, g, r) :
        p \in {<<"P", "1">>, <<"P", "2">>, <<"P", "3">>, <<"P", "X">>},
        g \in {<<"G", "1">>, <<"G", "2">>, <<"G", "9">>},
        r \in {<<>>, <<90>>, <<45>>}}

SimpleInsts ==
    {Instance(<<"P", "1">>, <<"G", "1">>, <<>>),
     Instance(<<"P", "3">>, <<"G", "1">>, <<>>)}

\* one or two sheets
SheetLists(S) == {<<a>> : a \in S} \cup {<<a, b>> : a \in S, b \in S}

(***************************************************************************)
(* The whole import: parts, libraries, net counts, then every sheet with   *)
(* at most one bus, at most one net and up to MaxInsts instances.          *)
(***************************************************************************)
Docs ==
    {Doc(SheetParts, SheetLibs, sheets) :
        sheets \in SheetLists({Sheet(nets, nbus, ninst) :
                                  nets \in {<<>>, <<<<"A">>>>},
                                  nbus \in {0, 1},
                                  ninst \in 0..MaxInsts})}

Init == \E d \in Docs : Fresh(d)

Next ==
    \/ LoadParts
    \/ LibraryBegin
    \/ DeviceBegin
    \/ LoadGate
    \/ DeviceEnd
    \/ LibraryEnd
    \/ LibrariesDone
    \/ CountNets
    \/ SheetBegin
    \/ LoadBus(BusShapes)
    \/ LoadNet(SimpleShapes)
    \/ BusScanBegin
    \/ BusNextBus
    \/ BusTestLine
    \/ LoadInstance(SimpleInsts)
    \/ FinishSheet

Spec == Init /\ [][Next]_vars

(***************************************************************************)
(* Nets and labels: documents without parts, libraries, buses and          *)
(* instances, of a sheet of up to two net elements and at most one more    *)
(* sheet of one net element; a net element has one to MaxSegs segments.    *)
(***************************************************************************)
NetDocs ==
    {Doc(<<>>, <<>>, <<Sheet(nets, 0, 0)>> \o more) :
        nets \in NetLists,
        more \in {<<>>} \cup {<<Sheet(<<a>>, 0, 0)>> : a \in NetNames}}

InitNets == \E d \in NetDocs : Fresh(d)

NextNets ==
    \/ LoadParts
    \/ LibrariesDone
    \/ CountNets
    \/ SheetBegin
    \/ LoadNet(AllShapes)
    \/ BusScanBegin
    \/ BusNextBus
    \/ FinishSheet

SpecNets == InitNets /\ [][NextNets]_vars

(***************************************************************************)
(* Instances: one sheet of one to MaxInsts instances and nothing else.     *)
(***************************************************************************)
InstDocs ==
    {Doc(SheetParts, SheetLibs, <<Sheet(<<>>, 0, n)>>) : n \in 1..MaxInsts}

InitInst == \E d \in InstDocs : Fresh(d)

NextInst ==
    \/ LoadParts
    \/ LibraryBegin
    \/ DeviceBegin
    \/ LoadGate
    \/ DeviceEnd
    \/ LibraryEnd
    \/ LibrariesDone
    \/ CountNets
    \/ SheetBegin
    \/ BusScanBegin
    \/ BusNextBus
    \/ LoadInstance(AllInsts)
    \/ FinishSheet

SpecInst == InitInst /\ [][NextInst]_vars

(***************************************************************************)
(* Two imports on one plugin: a document of one sheet of one to MaxInsts   *)
(* instances is loaded, and then a second one into the sheet of the first. *)
(* Both parts of a document resolve; one of them has a value, and which    *)
(* one differs from document to document.                                  *)
(***************************************************************************)
AgainPartLists ==
    {<<Part(<<"P", "1">>, <<"L">>, <<"D">>, <<>>, <<<<"1", "k">>>>),
       Part(<<"P", "2">>, <<"L">>, <<"D">>, <<>>, <<>>)>>,
     <<Part(<<"P", "1">>, <<"L">>, <<"D">>, <<>>, <<>>),
       Part(<<"P", "2">>, <<"L">>, <<"D">>, <<>>, <<<<"1", "k">>>>)>>}

\* instances of the two parts, of the two gates and of a gate the
\* deviceset lacks, unrotated or rotated
AgainInsts ==
    {Instance(<<"P", "1">>, <<"G", "1">>, <<>>),
     Instance(<<"P", "1">>, <<"G", "1">>, <<90>>),
     Instance(<<"P", "1">>, <<"G", "2">>, <<>>),
     Instance(<<"P", "1">>, <<"G", "9">>, <<>>),
     Instance(<<"P", "2">>, <<"G", "1">>, <<>>)}

AgainDocs ==
    {Doc(parts, SheetLibs, <<Sheet(<<>>, 0, n)>>) :
        parts \in AgainPartLists, n \in 1..MaxInsts}

InitAgain == \E d \in AgainDocs : Fresh(d)

NextAgain ==
    \/ LoadParts
    \/ LibraryBegin
    \/ DeviceBegin
    \/ LoadGate
    \/ DeviceEnd
    \/ LibraryEnd
    \/ LibrariesDone
    \/ CountNets
    \/ SheetBegin
    \/ BusScanBegin
    \/ BusNextBus
    \/ LoadInstance(AgainInsts)
    \/ FinishSheet
    \/ LoadAgain(AgainDocs)

SpecAgain == InitAgain /\ [][NextAgain]_vars

(***************************************************************************)
(* The library resolver on its own: one library of one deviceset of one to *)
(* MaxGates gates and one device, whose connects are none, one connect of  *)
(* the first gate with a pad list of no to MaxPadLen characters, or two    *)
(* connects.                                                               *)
(***************************************************************************)
MaxGates == 2

MaxPadLen == 3

\* a single pin; shapes, a field text, a text and two pins, one of them a
\* hidden rotated power pin and one with a name escapeName changes; a pin
\* of a rotation that is not supported
LibSymbols ==
    [n \in {<<"S", "1">>, <<"S", "2">>, <<"S", "3">>} |->
        IF n = <<"S", "1">>
        THEN <<PinChild(<<"A">>, <<>>, <<>>, <<<<"S", "U", "P">>>>)>>
        ELSE IF n = <<"S", "2">>
        THEN <<ShapeChild("circle"),
               PinChild(<<"A">>, <<90>>, <<"off">>, <<<<"s", "U", "P">>>>),
               ShapeChild("rectangle"),
               [ShapeChild("wire") EXCEPT !.curve = TRUE],
               ShapeChild("wire"),
               ShapeChild("polygon"),
               TextChild(<<">", "V", "a", "l", "u", "e">>),
               TextChild(<<"T">>),
               PinChild(<<"!", "B">>, <<270>>, <<"pad">>, <<<<"o", "c">>>>)>>
        ELSE <<PinChild(<<"A">>, <<45>>, <<"pin">>, <<>>)>>]

GateName(k) == <<"G", Digit(k)>>

GateLists ==
    UNION {{[k \in 1..n |-> Gate(GateName(k), f[k])] : f \in [1..n -> DOMAIN LibSymbols]}
              : n \in 1..MaxGates}

\* the pad lists: empty, or up to MaxPadLen characters of two pad
\* characters, the space and the backslash
PadStrings ==
    {<<>>} \cup UNION {[1..n -> {"1", "2", " ", "\\"}] : n \in 1..MaxPadLen}

ConnectLists ==
    {<<>>}
    \cup {<<Connect(GateName(1), p, pad)>> :
             p \in {<<"A">>, <<"!", "B">>}, pad \in PadStrings}
    \cup {<<Connect(GateName(1), <<"A">>, <<"1">>),
            Connect(GateName(1), <<"A">>, <<"2">>)>>,
          <<Connect(GateName(2), <<"A">>, <<"1", " ", "2">>),
            Connect(GateName(1), <<"A">>, <<"3">>)>>}

LibDocs ==
    {Doc(<<>>,
         <<Library(<<"L">>, <<"D", "*">>, prefix, LibSymbols, gates,
                   <<Device(<<"V">>, <<"P", "K">>, connects)>>)>>,
         <<>>) :
        prefix \in {<<>>, <<"U">>}, gates \in GateLists, connects \in ConnectLists}

InitLib == \E d \in LibDocs : Fresh(d)

NextLib ==
    \/ LoadParts
    \/ LibraryBegin
    \/ DeviceBegin
    \/ LoadGate
    \/ DeviceEnd
    \/ LibraryEnd
    \/ LibrariesDone

SpecLib == InitLib /\ [][NextLib]_vars

(***************************************************************************)
(* Pin directions on their own: one library of one deviceset of one gate,  *)
(* whose symbol is a single pin without a direction or with one of the     *)
(* known tokens, in any case, or with another token; the device has no     *)
(* connects.                                                               *)
(***************************************************************************)
Directions ==
    {<<>>, <<<<"p", "w", "r">>>>, <<<<>>>>, <<<<"i", "/", "o">>>>}
    \cup {<<DirectionWords[i]>> : i \in 1..Len(DirectionWords)}
    \cup {<<UpperWords[i]>> : i \in 1..Len(UpperWords)}
    \cup {<<MixedWords[i]>> : i \in 1..Len(MixedWords)}

PinDocs ==
    {Doc(<<>>,
         <<Library(<<"L">>, <<"D">>, <<"U">>,
                   [n \in {<<"S">>} |-> <<PinChild(<<"A">>, <<>>, <<>>, d)>>],
                   <<Gate(<<"G", "1">>, <<"S">>)>>,
                   <<Device(<<>>, <<>>, <<>>)>>)>>,
         <<>>) :
        d \in Directions}

InitPins == \E d \in PinDocs : Fresh(d)

SpecPins == InitPins /\ [][NextLib]_vars

(***************************************************************************)
(* The sheet loop on its own: documents of one to MaxSheets sheets, each   *)
(* of one net element of one segment.                                      *)
(***************************************************************************)
MaxSheets == 11

SheetDocs ==
    {Doc(<<>>, <<>>, [i \in 1..n |-> Sheet(<<<<"A">>>>, 0, 0)]) : n \in 1..MaxSheets}

InitSheets == \E d \in SheetDocs : Fresh(d)

NextSheets ==
    \/ LoadParts
    \/ LibrariesDone
    \/ CountNets
    \/ SheetBegin
    \/ LoadNet(SimpleShapes)
    \/ BusScanBegin
    \/ BusNextBus
    \/ FinishSheet

SpecSheets == InitSheets /\ [][NextSheets]_vars

(***************************************************************************)
(* Label placement on its own: one sheet of one net element of one         *)
(* segment, which has a label anywhere on the grid, a wire between any two *)
(* grid points and at most one more wire.                                  *)
(***************************************************************************)
\* the second wire of the segment, if it has one
MoreWires == {<<>>, <<Child("wire", "wire", <<150, 0>>, <<150, 150>>)>>}

LabelShapes ==
    {<<<<Child("label", "", p, p), Child("wire", "wire", ws, we)>> \o more>> :
        p \in GridPoints, ws \in GridPoints, we \in GridPoints,
        more \in MoreWires}

LabelDocs == {Doc(<<>>, <<>>, <<Sheet(<<<<"A">>>>, 0, 0)>>)}

InitLabel == \E d \in LabelDocs : Fresh(d)

NextLabel ==
    \/ LoadParts
    \/ LibrariesDone
    \/ CountNets
    \/ SheetBegin
    \/ LoadNet(LabelShapes)
    \/ BusScanBegin
    \/ BusNextBus
    \/ FinishSheet

SpecLabel == InitLabel /\ [][NextLabel]_vars

(***************************************************************************)
(* The text loaders on their own: one element of every alignment and       *)
(* rotation, given to one of the three loaders.                            *)
(***************************************************************************)
TextRots ==
    {<<>>} \cup {<<[degrees |-> d, mirror |-> m, spin |-> sp]>> :
                    d \in SupportedRotations, m \in BOOLEAN, sp \in BOOLEAN}

\* the rotations of an instance: the supported ones and one past a full
\* turn, which kiCadComponentRotation takes as 0
InstanceRots ==
    {<<>>} \cup {<<[degrees |-> d, mirror |-> m, spin |-> FALSE]>> :
                    d \in SupportedRotations \cup {450}, m \in BOOLEAN}

\* the text angles a field of the library part can have
FieldAngles == {0, 900}

TextAligns == {<<>>} \cup {<<a>> : a \in Alignments}

TextElements ==
    {[loader |-> "attribute", name |-> <<"NAME">>, align |-> a, rot |-> r,
      inst |-> ir, fieldangle |-> fa] :
        a \in TextAligns, r \in TextRots, ir \in InstanceRots,
        fa \in FieldAngles}
    \cup {[loader |-> l, name |-> <<"T">>, align |-> a, rot |-> r,
            inst |-> <<>>, fieldangle |-> 0] :
             l \in {"symbol", "plain"}, a \in TextAligns, r \in TextRots}

InitText ==
    /\ Constructed(Doc(<<>>, <<>>, <<>>))
    /\ BlockIdle /\ PadIdle
    /\ etext \in TextElements
    /\ edatext = NoText

NextText == LoadAttribute \/ LoadSymbolText \/ LoadPlainText

SpecText == InitText /\ [][NextText]_vars

MaxBlockItems == 2

\* a library editor in the middle of a block command: HandleBlockEnd and
\* HandleBlockPlace are public, they may be given any block
InitBlock ==
    /\ Constructed(Doc(<<>>, <<>>, <<>>))
    /\ TextIdle /\ PadIdle
    /\ screen \in
          {[m_BlockLocate |-> [m_State |-> st, m_Command |-> cmd,
                               m_Flags |-> fl, count |-> n],
            curItem |-> ci, modify |-> FALSE] :
             st \in {"STATE_NO_BLOCK", "STATE_BLOCK_END", "STATE_BLOCK_MOVE"},
             cmd \in BlockCommands, fl \in {0, 1}, n \in {0, 1},
             ci \in {NULL, 1}}
    /\ DrawPanel \in
          {[ManageCurseur |-> mc, ForceCloseManageCurseur |-> fc] :
             mc \in {NoCallback, "DrawAndSizingBlockOutlines",
                     "DrawMovingBlockOutlines"},
             fc \in {NoCallback, "AbortBlockCurrentCommand"}}
    /\ m_component \in
          {NoComponent} \cup
          {[null |-> FALSE, inblock |-> n, selected |-> 0, edit |-> "none"] :
             n \in 0..MaxBlockItems}
    /\ undoCount = 0
    /\ blk_last = NoBlockCall

NextBlock == HandleBlockEnd \/ DisplayErrorClosed \/ HandleBlockPlace

SpecBlock == InitBlock /\ [][NextBlock]_vars

MaxTracks == 2

\* the tracks a board is made of: to the right edge of the pad from afar,
\* within the pad, and away from the pad
BoardTracks ==
    {[start |-> s, end |-> e, inEdit |-> FALSE, flags |-> FALSE] :
        <<s, e>> \in {<<<<400, 100>>, <<110, 100>>>>,
                      <<<<90, 100>>, <<100, 100>>>>,
                      <<<<500, 100>>, <<500, 300>>>>}}

\* a board with a footprint of one pad, and up to MaxTracks tracks
InitPad ==
    /\ Constructed(Doc(<<>>, <<>>, <<>>))
    /\ TextIdle /\ BlockIdle
    /\ PadStatics
    /\ m_Pads = [i \in PadIds |->
                 [pos |-> <<100 + 400 * (i - 1), 100>>,
                  pos0 |-> <<400 * (i - 1), 0>>, flags |-> FALSE]]
    /\ tracks \in UNION {[1..n -> BoardTracks] : n \in 0..MaxTracks}

NextPad == StartMovePad \/ Show_Pad_Move \/ Abort_Move_Pad \/ PlacePad

SpecPad == InitPad /\ [][NextPad]_vars

(***************************************************************************)
(* Load, one step per call, on a plugin that lives on between calls.  A    *)
(* root sheet of the heap is alive or destroyed and is owned by the plugin *)
(* (it was handed to nobody), by the caller Load returned it to, or by the *)
(* schematic that was the append target.  A call is given no append target *)
(* or a live sheet of the caller's, and reads the file or not, and then    *)
(* returns or is left by an exception of the code it calls.                *)
(***************************************************************************)
MaxLoads == 3

Sheets == 1..Len(heap)

\* what aAppendToMe can be: nullptr or a sheet the caller holds
AppendTargets ==
    {NULL} \cup {id \in Sheets : heap[id].alive /\ heap[id].owner # "plugin"}

\* ~unique_ptr on the sheet the deleter holds
Destroy(h, id) == IF id = NULL THEN h ELSE [h EXCEPT ![id].alive = FALSE]

\* new SCH_SHEET
NewSheet(h) == Append(h, [alive |-> TRUE, owner |-> "plugin"])

\* xmlDocument.Load fails: the exception leaves Load before the deleter is
\* made
LoadUnreadable ==
    /\ calls < MaxLoads
    /\ \E aAppendToMe \in AppendTargets :
          ld_last' = [outcome |-> "unreadable", append |-> aAppendToMe,
                      created |-> NULL]
    /\ calls' = calls + 1
    /\ UNCHANGED <<varsEdit, varsBus, varsSheet, varsLib, doc, ld_pc, asserted,
                   m_rootSheet, heap>>

\* the deleter is made of the root sheet pointer as it is then, which the
\* new sheet or the append target's root replaces
RootAfter(aAppendToMe) ==
    IF aAppendToMe # NULL THEN aAppendToMe ELSE Len(heap) + 1

\* the rest of Load throws: the deleter destroys the sheet it holds
LoadThrows ==
    /\ calls < MaxLoads
    /\ \E aAppendToMe \in AppendTargets :
          LET deleter == IF aAppendToMe # NULL THEN NULL ELSE m_rootSheet
              h       == IF aAppendToMe # NULL THEN heap ELSE NewSheet(heap)
          IN  /\ m_rootSheet' = RootAfter(aAppendToMe)
              /\ heap' = Destroy(h, deleter)
              /\ ld_last' = [outcome |-> "threw", append |-> aAppendToMe,
                             created |-> IF aAppendToMe # NULL THEN NULL
                                         ELSE Len(heap) + 1]
    /\ calls' = calls + 1
    /\ UNCHANGED <<varsEdit, varsBus, varsSheet, varsLib, doc, ld_pc, asserted>>

\* Load returns: the deleter is released and the root sheet handed to the
\* caller
LoadReturns ==
    /\ calls < MaxLoads
    /\ \E aAppendToMe \in AppendTargets :
          LET h == IF aAppendToMe # NULL THEN heap ELSE NewSheet(heap)
          IN  /\ m_rootSheet' = RootAfter(aAppendToMe)
              /\ heap' = IF aAppendToMe # NULL THEN h
                         ELSE [h EXCEPT ![Len(h)].owner = "caller"]
              /\ ld_last' = [outcome |-> "returned", append |-> aAppendToMe,
                             created |-> IF aAppendToMe # NULL THEN NULL
                                         ELSE Len(heap) + 1]
    /\ calls' = calls + 1
    /\ UNCHANGED <<varsEdit, varsBus, varsSheet, varsLib, doc, ld_pc, asserted>>

\* a new plugin; the caller may hold a schematic to append to
InitLoad ==
    /\ doc = Doc(<<>>, <<>>, <<>>)
    /\ items = <<>> /\ items0 = <<>> /\ nextId = 1
    /\ be_pc = "idle" /\ be_bus = NULL /\ be_line = NULL /\ be_uaf = FALSE
    /\ ld_pc = "parts" /\ ld_sheet = 0
    /\ childSheets = <<>> /\ sheet_xy = <<0, 0>>
    /\ sh_pc = "none" /\ sh_bus = 0 /\ sh_net = 0 /\ sh_inst = 0
    /\ sh_elem = [kind |-> "none"] /\ sh_trans = <<0, 0>>
    /\ m_netCounts = EmptyMap /\ m_partlist = EmptyMap
    /\ m_partlib = EmptyMap /\ m_eagleLibs = EmptyMap
    /\ lib_pc = "start" /\ lib_idx = 1 /\ dev_idx = 1 /\ gateindex = 1
    /\ kpart = NoPart /\ ispower = FALSE /\ asserted = FALSE
    /\ m_rootSheet = NULL /\ calls = 0
    /\ heap \in {<<>>, <<[alive |-> TRUE, owner |-> "target"]>>}
    /\ ld_last = [outcome |-> "none"]
    /\ NoEdit

NextLoad == LoadUnreadable \/ LoadThrows \/ LoadReturns

SpecLoad == InitLoad /\ [][NextLoad]_vars

(***************************************************************************)
(* The bus-entry synthesizer on its own: the bus and the net of a sheet    *)
(* have been loaded, the sheet holds one bus line, one wire and at most    *)
(* one label placed on the wire, and addBusEntries is about to run.        *)
(***************************************************************************)
BusAnchor == <<50, 50>>

LabelSpots == {"none", "start", "mid", "end"}

LabelAt(spot, s, e) ==
    IF spot = "start" THEN s ELSE IF spot = "mid" THEN MidPoint(s, e) ELSE e

BusDoc == Doc(<<>>, <<>>, <<Sheet(<<<<"A">>>>, 1, 0)>>)

\* the net element of the sheet: its label, if any, and its wire
BusNet(ws, we, spot) ==
    <<(IF spot = "none" THEN <<>>
       ELSE <<Child("label", "", LabelAt(spot, ws, we), LabelAt(spot, ws, we))>>)
      \o <<Child("wire", "wire", ws, we)>>>>

\* the state loadSheet is in when it has loaded the bus and the net
BusSheet(busend, ws, we, spot) ==
    LET counts == countNets(BusDoc.sheets, EmptyMap)
        rb     == loadSegments(<<<<Child("wire", "bus", BusAnchor, busend)>>>>,
                               <<>>, 1, counts, BusName, 1)
    IN  loadSegments(BusNet(ws, we, spot), rb.l, rb.nid, rb.counts, <<"A">>, 2)

InitBus ==
    /\ \E busend \in GridPoints, ws \in GridPoints, we \in GridPoints,
          spot \in LabelSpots :
            LET r == BusSheet(busend, ws, we, spot)
            IN  /\ items = r.l
                /\ nextId = r.nid
                /\ m_netCounts = r.counts
                /\ sh_elem = [kind |-> "net", name |-> <<"A">>,
                              segs |-> BusNet(ws, we, spot)]
    /\ doc = BusDoc
    /\ items0 = <<>>
    /\ be_pc = "idle" /\ be_bus = NULL /\ be_line = NULL /\ be_uaf = FALSE
    /\ ld_pc = "sheets" /\ ld_sheet = 1
    /\ childSheets = <<>> /\ sheet_xy = <<0, 0>>
    /\ sh_pc = "segments" /\ sh_bus = 1 /\ sh_net = 1 /\ sh_inst = 0
    /\ sh_trans = <<0, 0>>
    /\ m_partlist = EmptyMap /\ m_partlib = EmptyMap /\ m_eagleLibs = EmptyMap
    /\ lib_pc = "start" /\ lib_idx = 1 /\ dev_idx = 1 /\ gateindex = 1
    /\ kpart = NoPart /\ ispower = FALSE /\ asserted = FALSE
    /\ m_rootSheet = NULL /\ heap = <<>> /\ calls = 0
    /\ ld_last = [outcome |-> "none"]
    /\ NoEdit

NextBus == BusScanBegin \/ BusNextBus \/ BusTestLine

SpecBus == InitBus /\ [][NextBus]_vars

(***************************************************************************)
(* The end of loadSheet on its own: a sheet of one net of one wire, with   *)
(* or without a label at the wire's end, drawn near or far from the page,  *)
(* and without a bus, so that addBusEntries has returned having done       *)
(* nothing.                                                                *)
(***************************************************************************)
FarCoords == {-20000, 0, 50, 20050}

FarPoints == FarCoords \X FarCoords

CentreDoc == Doc(<<>>, <<>>, <<Sheet(<<<<"A">>>>, 0, 0)>>)

InitCentre ==
    /\ \E ws \in FarPoints, we \in FarPoints, spot \in {"none", "end"} :
          LET counts == countNets(CentreDoc.sheets, EmptyMap)
              r      == loadSegments(BusNet(ws, we, spot), <<>>, 1, counts,
                                     <<"A">>, 1)
          IN  /\ items = r.l
              /\ nextId = r.nid
              /\ m_netCounts = r.counts
              /\ sh_elem = [kind |-> "net", name |-> <<"A">>,
                            segs |-> BusNet(ws, we, spot)]
              /\ items0 = r.l
    /\ doc = CentreDoc
    /\ be_pc = "done" /\ be_bus = NULL /\ be_line = NULL /\ be_uaf = FALSE
    /\ ld_pc = "sheets" /\ ld_sheet = 1
    /\ childSheets = <<>> /\ sheet_xy = <<0, 0>>
    /\ sh_pc = "instances" /\ sh_bus = 0 /\ sh_net = 1 /\ sh_inst = 0
    /\ sh_trans = <<0, 0>>
    /\ m_partlist = EmptyMap /\ m_partlib = EmptyMap /\ m_eagleLibs = EmptyMap
    /\ lib_pc = "start" /\ lib_idx = 1 /\ dev_idx = 1 /\ gateindex = 1
    /\ kpart = NoPart /\ ispower = FALSE /\ asserted = FALSE
    /\ m_rootSheet = NULL /\ heap = <<>> /\ calls = 0
    /\ ld_last = [outcome |-> "none"]
    /\ NoEdit

NextCentre == FinishSheet

SpecCentre == InitCentre /\ [][NextCentre]_vars

\* BusTestLine can be taken: it is total on a line pointer that is not null
LineTestEnabled == sh_pc = "busentries" /\ be_pc = "inner" /\ be_line # NULL

\* addBusEntries is one call that nothing interrupts: each of its steps is
\* taken when it can be.  The last conjunct is WF_vars(BusTestLine) with
\* ENABLED <<BusTestLine>>_vars written out as LineTestEnabled.
SpecBusFair ==
    /\ SpecBus
    /\ WF_vars(BusScanBegin)
    /\ WF_vars(BusNextBus)
    /\ ([]<>~LineTestEnabled \/ []<><<BusTestLine>>_vars)

(***************************************************************************)
(* Claims about addBusEntries.                                             *)
(***************************************************************************)
WireEnds == {"start", "end"}

EndPoint(it, wend) == IF wend = "start" THEN it.s ELSE it.e

\* the wire end points that lay on a bus line when addBusEntries began
OnBusAtEntry(w, wend) ==
    /\ w.kind = "line" /\ w.layer = "wire"
    /\ \E i \in 1..Len(items0) :
          /\ IsBus(items0[i])
          /\ TestSegmentHit(EndPoint(w, wend), items0[i].s, items0[i].e)

MadeFor(kind, w, wend) ==
    {i \in 1..Len(items) : /\ items[i].kind = kind
                           /\ items[i].forWire = w.id
                           /\ items[i].forEnd = wend}

\* C1: after addBusEntries, every wire end point that was on a bus line has
\* exactly one bus entry or exactly one marker made for it, never neither
\* and never both.
C1_EntryXorMarker ==
    be_pc = "done" =>
        \A i \in 1..Len(items0) : \A wend \in WireEnds :
            OnBusAtEntry(items0[i], wend) =>
                Cardinality(MadeFor("entry", items0[i], wend))
                    + Cardinality(MadeFor("marker", items0[i], wend)) = 1

(***************************************************************************)
(* Claims about labels.  They are read while the sheet's segments are      *)
(* being loaded, before addBusEntries and the recentring move the labels.  *)
(***************************************************************************)
\* the sheets that hold a net element of the name
SheetsNaming(name) ==
    {i \in 1..Len(doc.sheets) :
        \E j \in 1..Len(doc.sheets[i].nets) : doc.sheets[i].nets[j] = name}

\* the net elements of the document that carry the name
ElementsNaming(name) ==
    UNION {{<<i, j>> : j \in {j \in 1..Len(doc.sheets[i].nets) :
                                 doc.sheets[i].nets[j] = name}}
              : i \in 1..Len(doc.sheets)}

LoadingSegments == ld_pc = "sheets" /\ sh_pc = "segments"

\* the labels on the screen that a label child of a net element made
ExplicitLabels ==
    {i \in 1..Len(items) : /\ IsLabel(items[i])
                           /\ ~items[i].synth
                           /\ items[i].elem > CurSheet.nbus}

\* C2: every explicit label of a net is a global label exactly when the
\* net's name appears on more than one sheet of the document.
C2_GlobalIffOnManySheets ==
    LoadingSegments =>
        \A i \in ExplicitLabels :
            (items[i].kind = "glabel")
                <=> (Cardinality(SheetsNaming(
                        CurSheet.nets[items[i].elem - CurSheet.nbus])) > 1)

\* loadSegments has just returned from a net element
NetLoaded == LoadingSegments /\ sh_elem.kind = "net"

HasWire(seg) == \E i \in 1..Len(seg) : seg[i].kind = "wire"

HasLabel(seg) == \E i \in 1..Len(seg) : seg[i].kind = "label"

FirstWire(seg) == SelectSeq(seg, LAMBDA c : c.kind = "wire")[1]

\* the synthesized labels of the k-th segment of the element just loaded
SynthOf(k) ==
    {i \in 1..Len(items) : /\ items[i].synth
                           /\ items[i].elem = sh_bus + sh_net
                           /\ items[i].seg = k}

\* exactly one synthesized label, at the midpoint of the first wire
OneSynthAtMidPoint(k) ==
    /\ Cardinality(SynthOf(k)) = 1
    /\ \A i \in SynthOf(k) :
          /\ IsLabel(items[i])
          /\ items[i].s = MidPoint(FirstWire(sh_elem.segs[k]).s,
                                   FirstWire(sh_elem.segs[k]).e)

\* C3: in a net element of two or more segments, every segment with a wire
\* and no explicit label gets exactly one synthesized label at the midpoint
\* of its first wire, and every segment with an explicit label gets none.
C3_SynthLabelPerSegment ==
    (NetLoaded /\ Len(sh_elem.segs) >= 2) =>
        \A k \in 1..Len(sh_elem.segs) :
            /\ (HasWire(sh_elem.segs[k]) /\ ~HasLabel(sh_elem.segs[k]))
                  => OneSynthAtMidPoint(k)
            /\ HasLabel(sh_elem.segs[k]) => SynthOf(k) = {}

\* a net element of two or more segments was loaded, one of its segments
\* labelled and another one wired and unlabelled, and a label was made
C3_Witness ==
    /\ NetLoaded /\ Len(sh_elem.segs) >= 2
    /\ \E k \in 1..Len(sh_elem.segs) :
          HasWire(sh_elem.segs[k]) /\ HasLabel(sh_elem.segs[k])
    /\ \E k \in 1..Len(sh_elem.segs) :
          /\ HasWire(sh_elem.segs[k]) /\ ~HasLabel(sh_elem.segs[k])
          /\ SynthOf(k) # {}

\* C4: a net element of exactly one segment gets no synthesized label,
\* whatever the count of its name in m_netCounts is.
C4_NoSynthForOneSegment ==
    (NetLoaded /\ Len(sh_elem.segs) = 1) => SynthOf(1) = {}

(***************************************************************************)
(* Claims about the library resolver.                                      *)
(***************************************************************************)
\* the parts loadLibrary has built or is building
BuiltParts ==
    {m_partlib[n] : n \in DOMAIN m_partlib}
    \cup (IF ld_pc = "libs" /\ lib_pc = "gates" THEN {kpart} ELSE {})

\* the number of gates of the deviceset a part of the name was built from
GatesOf(name) ==
    LET li == CHOOSE i \in 1..Len(doc.libs) :
                 \E d \in 1..Len(doc.libs[i].devices) :
                    SymbolName(doc.libs[i].dsname, doc.libs[i].devices[d].name) = name
    IN  Len(doc.libs[li].gates)

\* C5: every part loadLibrary builds from a deviceset of N gates has unit
\* count N, and every draw item added to it carries a unit in 1..N.
C5_UnitsWithinGateCount ==
    \A part \in BuiltParts :
        /\ part.unitCount = GatesOf(part.name)
        /\ \A i \in 1..Len(part.items) :
              part.items[i].unit \in 1..GatesOf(part.name)

\* a part of two gates is in the output library, with draw items of every
\* kind and of both units
C5_Witness ==
    \E n \in DOMAIN m_partlib :
        /\ m_partlib[n].unitCount >= 2
        /\ \A kind \in {"circle", "rectangle", "polyline", "arc", "text", "pin"} :
              \E i \in 1..Len(m_partlib[n].items) : m_partlib[n].items[i].kind = kind
        /\ \A u \in 1..2 :
              \E i \in 1..Len(m_partlib[n].items) : m_partlib[n].items[i].unit = u

\* loadSymbol has returned from the g-th gate of the device being loaded
GateLoaded(g) ==
    /\ ld_pc = "libs" /\ lib_pc = "gates"
    /\ g \in 1..Len(CurLib.gates) /\ g < gateindex

GateSymbol(g) == CurLib.symbols[CurLib.gates[g].symbol]

\* the connects of the device that name the g-th gate and the i-th child of
\* its symbol, a pin
ConnectsOf(g, i) ==
    {c \in 1..Len(CurDev.connects) :
        /\ GateSymbol(g)[i].kind = "pin"
        /\ CurDev.connects[c].gate = CurLib.gates[g].name
        /\ CurDev.connects[c].pin = GateSymbol(g)[i].name}

\* the pin draw items of the part made for that gate and pin, in order
PinsOf(g, i) ==
    SelectSeq(kpart.items, LAMBDA it : it.kind = "pin" /\ it.unit = g /\ it.src = i)

RECURSIVE PadNames(_)
\* the names of a pad list: its maximal runs of characters other than space
PadNames(pad) ==
    IF pad = <<>> THEN <<>>
    ELSE IF Head(pad) = " " THEN PadNames(Tail(pad))
    ELSE LET stop == IF \E i \in 1..Len(pad) : pad[i] = " "
                     THEN CHOOSE i \in 1..Len(pad) :
                             pad[i] = " " /\ \A j \in 1..(i - 1) : pad[j] # " "
                     ELSE Len(pad) + 1
         IN  <<SubSeq(pad, 1, stop - 1)>> \o PadNames(SubSeq(pad, stop + 1, Len(pad)))

\* C6: a connect of gate G and pin P whose pad list has k pad names
\* separated by spaces gives exactly k pins for the pin, all named P,
\* numbered by the pad names in order, pairwise distinct, with the number
\* hidden exactly when k > 1.
C6_PinPerPadName ==
    \A g \in 1..MaxGates : GateLoaded(g) =>
        \A i \in 1..Len(GateSymbol(g)) : \A c \in ConnectsOf(g, i) :
            LET names == PadNames(CurDev.connects[c].pad)
                pins  == PinsOf(g, i)
            IN  /\ Len(pins) = Len(names)
                /\ \A j \in 1..Len(pins) :
                      /\ pins[j].name = GateSymbol(g)[i].name
                      /\ pins[j].number = names[j]
                      /\ pins[j].numHidden <=> (Len(names) > 1)
                /\ \A j, k \in 1..Len(pins) : j # k => pins[j].number # pins[k].number

\* the pins and components made from a rotation that is not supported
BadlyRotated ==
    {it \in UNION {{part.items[i] : i \in 1..Len(part.items)} : part \in BuiltParts} :
        it.kind = "pin" /\ it.rot \notin SupportedRotations}

\* C8: a rotation outside 0, 90, 180 and 270 aborts the import: no pin made
\* from one is given one of the four orientations while the import goes on.
C8_UnsupportedRotationIsFatal ==
    BadlyRotated # {} => ld_pc = "crashed"

(***************************************************************************)
(* Claims about instances, the order of loadSheet, and Load.               *)
(***************************************************************************)
\* the instance names a part the document lacks, or a part whose library
\* or whose symbol the document lacks
Unresolvable(inst) ==
    \A i \in 1..Len(doc.parts) :
        doc.parts[i].name = inst.part =>
            \A l \in 1..Len(doc.libs) :
                doc.libs[l].name = doc.parts[i].library =>
                    \A d \in 1..Len(doc.libs[l].devices) :
                        \/ doc.libs[l].dsname # doc.parts[i].deviceset
                        \/ doc.libs[l].devices[d].name # doc.parts[i].device

\* loadInstance has just been left
InstanceLoaded == sh_pc = "instances" /\ sh_elem.kind = "instance"

\* C7: an instance of a part that is not in the part table, or whose
\* symbol is not in the resolved library, adds no component and raises no
\* fault, so that the instance loop goes on.
C7_UnresolvedInstanceSkipped ==
    (InstanceLoaded /\ Unresolvable(sh_elem.inst)) =>
        /\ ~sh_elem.added
        /\ ld_pc # "crashed"

\* addBusEntries is running
Scanning == ld_pc = "sheets" /\ sh_pc = "busentries"

\* C10: addBusEntries runs only when all buses, all nets and all instances
\* of the sheet have been loaded.
C10_BusEntriesAfterInstances ==
    Scanning => /\ sh_bus = CurSheet.nbus
                /\ sh_net = Len(CurSheet.nets)
                /\ sh_inst = CurSheet.ninst

\* C9: a call of Load that made a new root sheet and failed has destroyed
\* that sheet, and no sheet that a caller or an append target owns is ever
\* destroyed.
C9_FailedLoadFreesOnlyItsOwnSheet ==
    /\ (ld_last.outcome = "threw" /\ ld_last.created # NULL)
          => ~heap[ld_last.created].alive
    /\ \A id \in Sheets : heap[id].owner # "plugin" => heap[id].alive

(***************************************************************************)
(* Claims about the order of loadSchematic.                                *)
(***************************************************************************)
\* loadSheet has been entered for some sheet of the document
SheetStarted == sh_pc # "none" \/ ld_sheet > 1

\* every part element is in the part table
PartsFilled ==
    \A i \in 1..Len(doc.parts) :
        /\ doc.parts[i].name \in DOMAIN m_partlist
        /\ ~m_partlist[doc.parts[i].name].null

\* loadLibrary has returned for every library: each has its EAGLE_LIBRARY
\* and each device of it has its part in the output library
LibrariesResolved ==
    /\ lib_pc = "start" /\ lib_idx > Len(doc.libs)
    /\ \A i \in 1..Len(doc.libs) :
          /\ doc.libs[i].name \in DOMAIN m_eagleLibs
          /\ \A j \in 1..Len(doc.libs[i].devices) :
                SymbolName(doc.libs[i].dsname, doc.libs[i].devices[j].name)
                    \in DOMAIN m_partlib

\* countNets has returned: every net element's name has a count
NetsCounted ==
    \A i \in 1..Len(doc.sheets) : \A j \in 1..Len(doc.sheets[i].nets) :
        /\ doc.sheets[i].nets[j] \in DOMAIN m_netCounts
        /\ m_netCounts[doc.sheets[i].nets[j]] >= 1

\* C11: no step of loadSheet (and so none of loadInstance or loadLabel)
\* happens before the part table is filled, loadLibrary has returned for
\* every library and countNets has returned.
C11_ResolvedBeforeSheets ==
    SheetStarted => PartsFilled /\ LibrariesResolved /\ NetsCounted

\* an instance of a resolved part has been loaded on a sheet with a net
C11_Witness ==
    /\ sh_pc = "instances" /\ sh_elem.kind = "instance" /\ sh_elem.added
    /\ Len(CurSheet.nets) > 0

\* C12: once countNets has returned, no step of loadSheet, loadSegments or
\* loadLabel adds a key to the net count map or changes a value of it.
C12_NetCountsFrozen == [][ld_pc = "sheets" => m_netCounts' = m_netCounts]_vars

(***************************************************************************)
(* More claims about addBusEntries.                                        *)
(***************************************************************************)
\* the wire has had an end point re-homed: a bus entry was made for it
ReHomed(w) ==
    /\ w.kind = "line" /\ w.layer = "wire"
    /\ \E wend \in WireEnds : MadeFor("entry", w, wend) # {}

\* C13: after addBusEntries no wire that was re-homed is left with its
\* start point equal to its end point, whichever block re-homed it.
C13_NoDegenerateWire ==
    be_pc = "done" =>
        \A i \in 1..Len(items) : ReHomed(items[i]) => items[i].s # items[i].e

\* the wires of the sheet when addBusEntries began
WiresAtEntry ==
    {i \in 1..Len(items0) : items0[i].kind = "line" /\ items0[i].layer = "wire"}

\* the end point wend of the wire w was re-homed and the label lay on it
AtReHomedEnd(lab, w, wend) ==
    /\ MadeFor("entry", w, wend) # {}
    /\ lab.s = EndPoint(w, wend)

\* C14: after addBusEntries, a label that lay on a re-homed end point of a
\* wire is at that wire's new end point, and a label that lay on no
\* re-homed end point, elsewhere along the wire included, is where it was.
C14_OnlyEndPointLabelsMove ==
    be_pc = "done" =>
        \A i \in 1..Len(items0) : IsLabel(items0[i]) =>
            LET lab == items0[i]
                now == ItemOf(items, lab.id)
            IN  /\ \A j \in WiresAtEntry : \A wend \in WireEnds :
                      (/\ AtReHomedEnd(lab, items0[j], wend)
                       /\ items0[j].id \in Ids(items))
                          => now.s = EndPoint(ItemOf(items, items0[j].id), wend)
                /\ (\A j \in WiresAtEntry : \A wend \in WireEnds :
                       ~AtReHomedEnd(lab, items0[j], wend))
                          => now.s = lab.s

\* C15: during the scan of addBusEntries a wire that was deleted from the
\* item list is never handed to moveLabels, modified or deleted again; in
\* particular the test of the end of a wire does not touch the wire when
\* the test of its start has deleted it.
C15_DeletedWireNeverUsed == ~be_uaf

(***************************************************************************)
(* Claims about instances.                                                 *)
(***************************************************************************)
\* the components of the sheet
Components == {i \in 1..Len(items) : items[i].kind = "component"}

WiresOf(seg) == SelectSeq(seg, LAMBDA c : c.kind = "wire")

\* the start, the middle and the end of every wire of the segment, in the
\* order of the scan
CandidatePoints(seg) ==
    [i \in 1..(3 * Len(WiresOf(seg))) |->
        LET w == WiresOf(seg)[((i - 1) \div 3) + 1]
        IN  IF i % 3 = 1 THEN w.s
            ELSE IF i % 3 = 2 THEN <<(w.s[1] + w.e[1]) \div 2, (w.s[2] + w.e[2]) \div 2>>
            ELSE w.e]

\* the square of the Euclidean distance
EuclidSquared(p, q) ==
    (p[1] - q[1]) * (p[1] - q[1]) + (p[2] - q[2]) * (p[2] - q[2])

\* the earliest of the points that are nearest to p
EuclidNearest(p, pts) ==
    pts[CHOOSE i \in 1..Len(pts) :
           \A j \in 1..Len(pts) :
               \/ EuclidSquared(p, pts[i]) < EuclidSquared(p, pts[j])
               \/ EuclidSquared(p, pts[i]) = EuclidSquared(p, pts[j]) /\ i <= j]

\* the label child of the segment lies on a wire of the segment
OnWireOf(c, seg) ==
    \E i \in 1..Len(WiresOf(seg)) :
        TestSegmentHit(c.s, WiresOf(seg)[i].s, WiresOf(seg)[i].e)

\* the labels the label children of the k-th segment of the element just
\* loaded made
LabelsOf(k) ==
    {i \in 1..Len(items) : /\ IsLabel(items[i])
                           /\ ~items[i].synth
                           /\ items[i].elem = sh_bus + sh_net
                           /\ items[i].seg = k}

\* C17: a label on no wire of its segment is placed at the earliest of the
\* start, middle and end points of the segment's wires that are nearest to
\* it by Euclidean distance, and a label on a wire of its segment is
\* placed where it was drawn.
C17_LabelToNearestPoint ==
    NetLoaded =>
        \A k \in 1..Len(sh_elem.segs) : \A i \in LabelsOf(k) :
            LET seg == sh_elem.segs[k]
                c   == SelectSeq(seg, LAMBDA x : x.kind = "label")[1]
            IN  IF OnWireOf(c, seg) THEN items[i].s = c.s
                ELSE items[i].s = EuclidNearest(c.s, CandidatePoints(seg))

(***************************************************************************)
(* Claims about pins and power symbols.                                    *)
(***************************************************************************)
\* the electrical type the direction token stands for
TypeOfWord(word) ==
    IF word = <<"s", "u", "p">> THEN "power_in"
    ELSE IF word = <<"p", "a", "s">> THEN "passive"
    ELSE IF word = <<"o", "u", "t">> THEN "output"
    ELSE IF word = <<"i", "n">> THEN "input"
    ELSE IF word = <<"n", "c">> THEN "nc"
    ELSE IF word = <<"i", "o">> THEN "bidi"
    ELSE IF word = <<"o", "c">> THEN "opencollector"
    ELSE IF word = <<"h", "i", "z">> THEN "tristate"
    ELSE "unspecified"

\* the direction of the pin child a pin draw item of a part was made from
DirectionOf(part, it) ==
    LET lib == CHOOSE l \in {doc.libs[i] : i \in 1..Len(doc.libs)} :
                  \E d \in 1..Len(l.devices) :
                     SymbolName(l.dsname, l.devices[d].name) = part.name
    IN  lib.symbols[lib.gates[it.unit].symbol][it.src].direction

\* C18: every pin of a part has the electrical type its direction token
\* stands for, whatever the case of the token: sup power input, pas
\* passive, out output, in input, nc not connected, io bidirectional, oc
\* open collector, hiz tristate, and unspecified for any other token and
\* for a pin without a direction.
C18_PinTypeOfDirection ==
    \A part \in BuiltParts : \A i \in 1..Len(part.items) :
        part.items[i].kind = "pin" =>
            LET dir == DirectionOf(part, part.items[i])
            IN  part.items[i].type =
                   IF dir = <<>> THEN "unspecified" ELSE TypeOfWord(Lower(dir[1]))

\* the pins of a part, of whatever gate
PinsOfPart(part) == {i \in 1..Len(part.items) : part.items[i].kind = "pin"}

\* C19: a part in the output library is a power symbol exactly when it has
\* one pin in all, over all of its gates, and that pin is a power input.
C19_PowerIffSinglePowerPin ==
    \A n \in DOMAIN m_partlib :
        m_partlib[n].power <=>
            /\ Cardinality(PinsOfPart(m_partlib[n])) = 1
            /\ \A i \in PinsOfPart(m_partlib[n]) :
                  m_partlib[n].items[i].type = "power_in"

(***************************************************************************)
(* Claims about the sheet loop.                                            *)
(***************************************************************************)
\* the grid cell of the i-th child sheet
CellOf(i) == <<1 + 2 * ((i - 1) % 5), 1 + 2 * ((i - 1) \div 5)>>

\* the sheets of the document that loadSheet has been entered for
SheetsEntered ==
    IF ld_pc \in {"parts", "libs", "countNets"} THEN 0
    ELSE IF sh_pc = "none" THEN ld_sheet - 1 ELSE ld_sheet

\* C20: when the document has more than one sheet, there is one child
\* sheet for every sheet loadSheet was entered for, the i-th at 1000 times
\* the cell (1 + 2 * ((i - 1) mod 5), 1 + 2 * ((i - 1) div 5)); no column
\* exceeds 10 and no two child sheets share a cell.
C20_ChildSheetGrid ==
    Len(doc.sheets) > 1 =>
        /\ Len(childSheets) = SheetsEntered
        /\ \A i \in 1..Len(childSheets) :
              /\ childSheets[i].index = i
              /\ childSheets[i].pos = <<1000 * CellOf(i)[1], 1000 * CellOf(i)[2]>>
              /\ childSheets[i].pos[1] <= 10 * 1000
        /\ \A i \in 1..Len(childSheets) : \A j \in 1..Len(childSheets) :
              i # j => childSheets[i].pos # childSheets[j].pos

\* the import is over and the child sheets fill more than one row
C20_Witness ==
    /\ ld_pc = "done"
    /\ Len(childSheets) = Len(doc.sheets)
    /\ Len(childSheets) > 5
    /\ childSheets[6].pos = <<1000, 3000>>


(***************************************************************************)
(* Claims about the alignment of texts.                                    *)
(***************************************************************************)
TextLoaded == edatext # NoText

\* the rotation the element itself carries
AbsoluteRotation == Opt(etext.rot, NoRot).degrees

\* the text is mirrored: by its own rot, or by its instance's, not by both
IsMirrored == Opt(etext.rot, NoRot).mirror # Opt(etext.inst, NoRot).mirror

\* the alignment the rotation step leaves: negated when the rotation
\* relative to the instance is 180 or 270
TurnedAlignment ==
    LET rel == CMod(AbsoluteRotation - Opt(etext.inst, NoRot).degrees + 360, 360)
        a   == Opt(etext.align, "BOTTOM_LEFT")
    IN  IF rel \in {180, 270} THEN Negated(a) ELSE a

SwappedTopBottom(a) ==
    CASE a = "TOP_LEFT"     -> "BOTTOM_LEFT"
      [] a = "BOTTOM_LEFT"  -> "TOP_LEFT"
      [] a = "TOP_RIGHT"    -> "BOTTOM_RIGHT"
      [] a = "BOTTOM_RIGHT" -> "TOP_RIGHT"
      [] OTHER              -> a

SwappedLeftRight(a) ==
    CASE a = "TOP_LEFT"     -> "TOP_RIGHT"
      [] a = "TOP_RIGHT"    -> "TOP_LEFT"
      [] a = "BOTTOM_LEFT"  -> "BOTTOM_RIGHT"
      [] a = "BOTTOM_RIGHT" -> "BOTTOM_LEFT"
      [] a = "CENTER_LEFT"  -> "CENTER_RIGHT"
      [] a = "CENTER_RIGHT" -> "CENTER_LEFT"
      [] OTHER              -> a

\* C21: whichever loader made the text (instance attribute, symbol text or
\* plain text), a mirrored text is justified as its alignment with top and
\* bottom corners swapped when its absolute rotation is 90 or 270, and as
\* its alignment with left and right swapped when it is 0 or 180.
C21_MirrorSwapByAbsoluteRotation ==
    TextLoaded /\ IsMirrored =>
        LET expected == IF AbsoluteRotation \in {90, 270}
                        THEN SwappedTopBottom(TurnedAlignment)
                        ELSE SwappedLeftRight(TurnedAlignment)
        IN  <<edatext.hjustify, edatext.vjustify>> = Justification(expected)


SheetFinishes == sh_pc = "instances" /\ sh_pc' = "none"

\* C23: when loadSheet comes to its bounding-box step, the screen holds a
\* first draw item to take the box of, so that the step never reads an item
\* that does not exist, also for a sheet that has produced no draw item.
C23_BoundingBoxHasFirstItem == [][SheetFinishes => items # <<>>]_vars

\* the step of loadSheet that moves the items has been taken
SheetFinished == sh_pc = "none" /\ ld_sheet > 1

OnGrid(p) == p[1] % 100 = 0 /\ p[2] % 100 = 0

\* C24: the recentring step moves every draw item of the sheet by one
\* translation vector, whose x and y are both multiples of 100: no item is
\* added, dropped or changed otherwise, and both points of every item are
\* moved by that vector.
C24_CommonGridTranslation ==
    [][SheetFinishes =>
          \E t \in {sh_trans'} :
             /\ OnGrid(t)
             /\ Len(items') = Len(items)
             /\ \A i \in 1..Len(items) :
                   items'[i] = [items[i] EXCEPT !.s = <<@[1] + t[1], @[2] + t[2]>>,
                                                !.e = <<@[1] + t[1], @[2] + t[2]>>]]_vars

\* a sheet of a wire and a label was moved, left and up, by a vector that
\* is not zero
C24_Witness ==
    /\ SheetFinished
    /\ Len(items) > 1
    /\ sh_trans[1] < 0 /\ sh_trans[2] < 0


(***************************************************************************)
(* Claims about the pins and the units of parts.                           *)
(***************************************************************************)
\* C25: when a gate has been loaded, every pin element of its symbol that
\* no connect of the device names (the device has no connect at all, or none
\* for that gate and pin name) has given the part at least one pin draw
\* item of the gate's unit.
C25_UnconnectedPinKept ==
    \A g \in 1..MaxGates : GateLoaded(g) =>
        \A i \in 1..Len(GateSymbol(g)) :
            (GateSymbol(g)[i].kind = "pin" /\ ConnectsOf(g, i) = {})
                => Len(PinsOf(g, i)) >= 1

\* the name of the symbol the part of an instance resolves to
ResolvedName(part) ==
    LET epart == MapGet(m_partlist, part, NullEPart)
    IN  SymbolName(epart.deviceset, epart.device)

\* C26: every component on the sheet carries a unit between 1 and the unit
\* count of the part definition its instance resolved to, also when the
\* gate of the instance is not in the gate-unit table of the library.
C26_UnitWithinPart ==
    \A i \in Components :
        /\ ResolvedName(items[i].part) \in DOMAIN m_partlib
        /\ items[i].unit \in 1..m_partlib[ResolvedName(items[i].part)].unitCount

(***************************************************************************)
(* Claims about the block commands of the library editor.                  *)
(***************************************************************************)
\* the block command is over
BlockOver ==
    /\ screen.m_BlockLocate.m_State = "STATE_NO_BLOCK"
    /\ screen.m_BlockLocate.m_Command = "BLOCK_IDLE"
    /\ DrawPanel.ManageCurseur = NoCallback
    /\ DrawPanel.ForceCloseManageCurseur = NoCallback

\* C27: when HandleBlockPlace has returned, whatever the block command was
\* on entry, the block state is STATE_NO_BLOCK, the command is BLOCK_IDLE,
\* the block flags are 0, both cursor callbacks are NULL and no current
\* item is set.
C27_BlockPlaceEndsBlock ==
    blk_last.call = "place" =>
        /\ BlockOver
        /\ screen.m_BlockLocate.m_Flags = 0
        /\ screen.curItem = NULL

\* a block move was placed: the selected items of the component were moved
C27_Witness ==
    /\ blk_last.call = "place" /\ blk_last.entry = "BLOCK_MOVE"
    /\ blk_last.curseur = "DrawMovingBlockOutlines"
    /\ m_component.edit = "moved" /\ m_component.selected > 0
    /\ undoCount > 0

\* C28: HandleBlockEnd returns true exactly when it leaves the block in
\* state STATE_BLOCK_MOVE with the moving-outline callback installed; in
\* every other case it returns false and the block is reset to
\* STATE_NO_BLOCK / BLOCK_IDLE with both cursor callbacks NULL.
C28_TrueIffMovingOutline ==
    blk_last.call = "end" =>
        /\ ~blk_last.crashed
        /\ blk_last.ret <=>
              /\ screen.m_BlockLocate.m_State = "STATE_BLOCK_MOVE"
              /\ DrawPanel.ManageCurseur = "DrawMovingBlockOutlines"
        /\ ~blk_last.ret => BlockOver

\* the same for calls that return: true exactly when the block is left in
\* state STATE_BLOCK_MOVE, false exactly when it is reset
C28_TrueIffBlockMove ==
    blk_last.call = "end" /\ ~blk_last.crashed =>
        /\ blk_last.ret <=> screen.m_BlockLocate.m_State = "STATE_BLOCK_MOVE"
        /\ ~blk_last.ret => BlockOver

\* the same for calls entered with a cursor callback installed
C28_WithCallbackOnEntry ==
    blk_last.call = "end" /\ ~blk_last.crashed
        /\ blk_last.curseur # NoCallback =>
        /\ blk_last.ret <=>
              /\ screen.m_BlockLocate.m_State = "STATE_BLOCK_MOVE"
              /\ DrawPanel.ManageCurseur = "DrawMovingBlockOutlines"
        /\ ~blk_last.ret => BlockOver

(***************************************************************************)
(* Claims about moving a pad.                                              *)
(***************************************************************************)
\* the drag list is empty and the mouse capture is released
MoveEnded == g_DragSegmentList = <<>> /\ mouseCapture = NoCapture

\* C29: when Abort_Move_Pad ends a move begun by StartMovePad, after any
\* number of Show_Pad_Move updates, the pad is at the position it had at
\* StartMovePad, every dragged track has the end points it had then, the
\* drag list is empty, the mouse capture is released and the current
\* selected pad is cleared.
C29_AbortRestoresMove ==
    pad_last.call = "abort" =>
        /\ m_Pads[pad_start.pad].pos = pad_start.pos
        /\ \A k \in DOMAIN pad_start.list :
              LET i == pad_start.list[k].m_Track
              IN  /\ tracks[i].start = pad_start.tracks[i].start
                  /\ tracks[i].end = pad_start.tracks[i].end
        /\ MoveEnded
        /\ s_CurrentSelectedPad = NULL

\* a drag of two tracks was cancelled after the pad had been moved away
C29_Witness ==
    /\ pad_last.call = "abort"
    /\ pad_last.pos # pad_start.pos
    /\ Len(pad_start.list) = 2

\* C30: when PlacePad places the pad StartMovePad began to move, the undo
\* entry holds the pad at its position before the move, and on return the
\* pad is at the position it was moved to, every end of a dragged track
\* flagged as on the pad is at the pad's position, the drag list is empty
\* and the mouse capture is released.
C30_UndoBeforeCommit ==
    pad_last.call = "place" /\ pad_last.moving =>
        /\ pcbUndo.list[Len(pcbUndo.list)].module[pad_last.aPad].pos
              = pad_start.pos
        /\ m_Pads[pad_last.aPad].pos = pad_last.pos
        /\ \A k \in DOMAIN pad_last.list :
              LET entry == pad_last.list[k]
                  pos == m_Pads[pad_last.aPad].pos
              IN  /\ entry.m_Pad_Start # NULL
                        => tracks[entry.m_Track].start = pos
                  /\ entry.m_Pad_End # NULL
                        => tracks[entry.m_Track].end = pos
        /\ MoveEnded

\* a pad dragged away with two tracks was placed; one track end had been
\* on the pad but not at its position
C30_Witness ==
    /\ pad_last.call = "place" /\ pad_last.moving
    /\ pad_last.pos # pad_start.pos
    /\ Len(pad_last.list) = 2
    /\ \E k \in DOMAIN pad_last.list :
          /\ pad_last.list[k].m_Pad_End # NULL
          /\ pad_last.list[k].m_PadEndOffset # <<0, 0>>

====
